---- MODULE Spec2Model ----
(***************************************************************************)
(* Model of the AVL tree of package avl (gopkg.in/typ.v3/pkg/avl).         *)
(*                                                                         *)
(* A *node[T] is a tuple <<value, left, right, height>>; the nil pointer   *)
(* is the empty tuple.  Every node of a tree has exactly one owner (the    *)
(* parent's field or Tree.root), so the in-place updates of the Go code    *)
(* are functional updates of the tuple.  A Tree[T] is the record           *)
(* [compare, root, count].                                                 *)
(***************************************************************************)
EXTENDS Integers, Sequences, FiniteSets, TLC

\* ---------------------------------------------------------------- bounds
\* Values stored in the tree are 1..MaxVal.
MaxVal == 3
\* Add is not called on a tree that already has MaxNodes nodes.
MaxNodes == 5
\* Remove is not called once Tree.count has reached -MaxNeg.
MaxNeg == 1
\* The caller that also reads the tree does not call Add on a tree that
\* already has MaxQueryNodes nodes.
MaxQueryNodes == 3
\* Chunk and ChunkFunc are given slices of at most MaxChunkLen elements
\* and sizes 1..MaxChunkSize.
MaxChunkLen == 5
MaxChunkSize == 3

\* The values a caller enqueues, and the number of its Enqueue calls.
MaxQueueVal == 3
MaxEnqueues == 4

\* The keys of a KeyedMutex, the goroutines that use it, and the mutexes
\* it allocates.
MaxKeys == 2
MaxGoroutines == 2
MaxMutexes == 3

\* The subscriptions of a PubSub, the buffer size of a subscription
\* channel, and the PubWait calls of the publisher.
MaxSubs == 2
MaxBuffer == 1
MaxPubs == 1

\* The values added to a tree and its clone, and the nodes allocated in
\* their memory.
MaxAlloc == 6

\* The hand-built subtrees of the rotation tests: their values and size.
MaxRotVal == 4
MaxRotNodes == 4

\* The size of the valid trees Remove is called on.
MaxValidNodes == 6

\* Pairs ordered by their first component: first and second components.
MaxPairKey == 2
MaxPairTag == 2

\* The distinct values of a tree that is emptied in post-order.
MaxDrainVal == 5

\* The keys and the values of a Bimap.
MaxBmKey == 3
MaxBmVal == 3

\* The values held by the two sets.
MaxSetVal == 2

Values == 1..MaxVal

\* ------------------------------------------------------------ node[T]
Nil == <<>>

Node(v, l, r, h) == <<v, l, r, h>>

\* &node[T]{value: value}
Leaf(v) == Node(v, Nil, Nil, 0)

Value(n) == n[1]
Left(n) == n[2]
Right(n) == n[3]
Height(n) == n[4]

SetLeft(n, l) == Node(Value(n), l, Right(n), Height(n))
SetRight(n, r) == Node(Value(n), Left(n), r, Height(n))
SetHeight(n, h) == Node(Value(n), Left(n), Right(n), h)

\* ------------------------------------------------------- comparators
\* The func value stored in Tree.compare: typ.Compare, or the nil func
\* of a zero-value Tree.
Ordered == "Ordered"
NilFunc == "nil"

\* typ.Compare.  Calling the nil func is a panic; the callers below test
\* for it before any call, so no case is given for it here.
Compare(a, b) == IF a > b THEN 1 ELSE IF a < b THEN -1 ELSE 0

\* A func passed to New that orders pairs by their first component.
ByFirst == "ByFirst"

compare(cmp, a, b) ==
    CASE cmp = Ordered -> Compare(a, b)
      [] cmp = ByFirst -> Compare(a[1], b[1])

\* typ.Max of two ints
Max(a, b) == IF b > a THEN b ELSE a

\* ------------------------------------------------------------ heights
balanceBalanced == 0
balanceRightHeavy == 1
balanceLeftHeavy == -1

leftHeight(n) == IF Left(n) = Nil THEN 0 ELSE Height(Left(n))

rightHeight(n) == IF Right(n) = Nil THEN 0 ELSE Height(Right(n))

calcHeight(n) ==
    IF Left(n) = Nil /\ Right(n) = Nil THEN 0
    ELSE IF Left(n) = Nil THEN 1 + rightHeight(n)
    ELSE IF Right(n) = Nil THEN 1 + leftHeight(n)
    ELSE 1 + Max(leftHeight(n), rightHeight(n))

balance(n) ==
    IF leftHeight(n) - rightHeight(n) > 1 THEN balanceLeftHeavy
    ELSE IF rightHeight(n) - leftHeight(n) > 1 THEN balanceRightHeavy
    ELSE balanceBalanced

\* ---------------------------------------------------------- rotations
\* rotateLeft with the last link of rotateRight: the previous root is hung
\* on the right of the new root.
rotateLeftPasted(n) ==
    LET newRoot == Right(n)
        p1 == SetRight(n, Left(newRoot))
        p2 == IF Right(p1) # Nil
              THEN SetRight(p1, SetHeight(Right(p1), calcHeight(Right(p1))))
              ELSE p1
        p3 == SetHeight(p2, calcHeight(p2))
        r1 == SetRight(newRoot, p3)
    IN  SetHeight(r1, calcHeight(r1))

rotateLeft(n) ==
    LET newRoot == Right(n)
        p1 == SetRight(n, Left(newRoot))
        p2 == IF Right(p1) # Nil
              THEN SetRight(p1, SetHeight(Right(p1), calcHeight(Right(p1))))
              ELSE p1
        p3 == SetHeight(p2, calcHeight(p2))
        r1 == SetLeft(newRoot, p3)
    IN  SetHeight(r1, calcHeight(r1))

\* rotateRight without prevRoot.height = prevRoot.calcHeight().
rotateRightStale(n) ==
    LET newRoot == Left(n)
        p1 == SetLeft(n, Right(newRoot))
        p2 == IF Left(p1) # Nil
              THEN SetLeft(p1, SetHeight(Left(p1), calcHeight(Left(p1))))
              ELSE p1
        r1 == SetRight(newRoot, p2)
    IN  SetHeight(r1, calcHeight(r1))

rotateRight(n) ==
    LET newRoot == Left(n)
        p1 == SetLeft(n, Right(newRoot))
        p2 == IF Left(p1) # Nil
              THEN SetLeft(p1, SetHeight(Left(p1), calcHeight(Left(p1))))
              ELSE p1
        p3 == SetHeight(p2, calcHeight(p2))
        r1 == SetRight(newRoot, p3)
    IN  SetHeight(r1, calcHeight(r1))

rotateLeftRight(n) == rotateLeft(SetRight(n, rotateRight(Right(n))))

rotateRightLeft(n) == rotateRight(SetLeft(n, rotateLeft(Left(n))))

rebalance(n) ==
    IF balance(n) = balanceRightHeavy
    THEN IF Right(n) # Nil /\ balance(Right(n)) = balanceLeftHeavy
         THEN rotateLeftRight(n)
         ELSE rotateLeft(n)
    ELSE IF balance(n) = balanceLeftHeavy
    THEN IF Left(n) # Nil /\ balance(Left(n)) = balanceRightHeavy
         THEN rotateRightLeft(n)
         ELSE rotateRight(n)
    ELSE n

\* ------------------------------------------------------------ node.add
\* node.add descending to the right for a smaller value.
RECURSIVE addMirrored(_, _, _)
addMirrored(n, value, cmp) ==
    LET n1 == IF compare(cmp, value, Value(n)) > 0
              THEN IF Left(n) = Nil
                   THEN SetLeft(n, Leaf(value))
                   ELSE SetLeft(n, addMirrored(Left(n), value, cmp))
              ELSE IF Right(n) = Nil
                   THEN SetRight(n, Leaf(value))
                   ELSE SetRight(n, addMirrored(Right(n), value, cmp))
    IN  rebalance(n1)

RECURSIVE add(_, _, _)
add(n, value, cmp) ==
    LET n1 == IF compare(cmp, value, Value(n)) < 0
              THEN IF Left(n) = Nil
                   THEN SetLeft(n, Leaf(value))
                   ELSE SetLeft(n, add(Left(n), value, cmp))
              ELSE IF Right(n) = Nil
                   THEN SetRight(n, Leaf(value))
                   ELSE SetRight(n, add(Right(n), value, cmp))
    IN  rebalance(n1)

\* --------------------------------------------------------- node.remove
\* popLeftMost returns <<child, leftMost>>.
RECURSIVE popLeftMost(_)
popLeftMost(n) ==
    IF Left(n) = Nil
    THEN <<Right(n), n>>
    ELSE LET p == popLeftMost(Left(n))
             n1 == SetLeft(n, p[1])
         IN  <<SetHeight(n1, calcHeight(n1)), p[2]>>

\* node.remove without "leftMost.left = n.left" in the two-children case.
RECURSIVE removeDropsLeft(_, _, _)
removeDropsLeft(n, value, cmp) ==
    IF Value(n) = value
    THEN IF Left(n) = Nil /\ Right(n) = Nil THEN <<Nil, TRUE>>
         ELSE IF Left(n) = Nil THEN <<Right(n), TRUE>>
         ELSE IF Right(n) = Nil THEN <<Left(n), TRUE>>
         ELSE LET p == popLeftMost(Right(n))
                  m1 == SetRight(p[2], p[1])
                  m2 == SetHeight(m1, calcHeight(m1))
              IN  <<rebalance(m2), TRUE>>
    ELSE IF Left(n) # Nil /\ compare(cmp, value, Value(n)) < 0
    THEN LET r == removeDropsLeft(Left(n), value, cmp)
             n1 == SetLeft(n, r[1])
         IN  IF r[2]
             THEN <<rebalance(SetHeight(n1, calcHeight(n1))), TRUE>>
             ELSE <<n, FALSE>>
    ELSE IF Right(n) # Nil
    THEN LET r == removeDropsLeft(Right(n), value, cmp)
             n1 == SetRight(n, r[1])
         IN  IF r[2]
             THEN <<rebalance(SetHeight(n1, calcHeight(n1))), TRUE>>
             ELSE <<n, FALSE>>
    ELSE <<n, FALSE>>

\* remove returns <<node, ok>>.
RECURSIVE remove(_, _, _)
remove(n, value, cmp) ==
    IF Value(n) = value
    THEN IF Left(n) = Nil /\ Right(n) = Nil THEN <<Nil, TRUE>>
         ELSE IF Left(n) = Nil THEN <<Right(n), TRUE>>
         ELSE IF Right(n) = Nil THEN <<Left(n), TRUE>>
         ELSE LET p == popLeftMost(Right(n))
                  m1 == SetRight(SetLeft(p[2], Left(n)), p[1])
                  m2 == SetHeight(m1, calcHeight(m1))
              IN  <<rebalance(m2), TRUE>>
    ELSE IF Left(n) # Nil /\ compare(cmp, value, Value(n)) < 0
    THEN LET r == remove(Left(n), value, cmp)
             n1 == SetLeft(n, r[1])
         IN  IF r[2]
             THEN <<rebalance(SetHeight(n1, calcHeight(n1))), TRUE>>
             ELSE <<n, FALSE>>
    ELSE IF Right(n) # Nil
    THEN LET r == remove(Right(n), value, cmp)
             n1 == SetRight(n, r[1])
         IN  IF r[2]
             THEN <<rebalance(SetHeight(n1, calcHeight(n1))), TRUE>>
             ELSE <<n, FALSE>>
    ELSE <<n, FALSE>>

\* ----------------------------------------------------------- node.find
\* node.find descending to the left for a larger value.
RECURSIVE findWrongSide(_, _, _)
findWrongSide(n, value, cmp) ==
    IF Value(n) = value THEN n
    ELSE IF Left(n) # Nil /\ compare(cmp, value, Value(n)) > 0
    THEN findWrongSide(Left(n), value, cmp)
    ELSE IF Right(n) # Nil THEN findWrongSide(Right(n), value, cmp)
    ELSE Nil

\* find returns the node found, or Nil.
RECURSIVE find(_, _, _)
find(n, value, cmp) ==
    IF Value(n) = value THEN n
    ELSE IF Left(n) # Nil /\ compare(cmp, value, Value(n)) < 0
    THEN find(Left(n), value, cmp)
    ELSE IF Right(n) # Nil THEN find(Right(n), value, cmp)
    ELSE Nil

contains(n, value, cmp) == find(n, value, cmp) # Nil

\* ---------------------------------------------------------- node.walk*
\* The sequence of values passed to the walker, in call order.
RECURSIVE walkPreOrder(_)
walkPreOrder(n) ==
    <<Value(n)>>
    \o (IF Left(n) # Nil THEN walkPreOrder(Left(n)) ELSE <<>>)
    \o (IF Right(n) # Nil THEN walkPreOrder(Right(n)) ELSE <<>>)

RECURSIVE walkInOrder(_)
walkInOrder(n) ==
    (IF Left(n) # Nil THEN walkInOrder(Left(n)) ELSE <<>>)
    \o <<Value(n)>>
    \o (IF Right(n) # Nil THEN walkInOrder(Right(n)) ELSE <<>>)

RECURSIVE walkPostOrder(_)
walkPostOrder(n) ==
    (IF Left(n) # Nil THEN walkPostOrder(Left(n)) ELSE <<>>)
    \o (IF Right(n) # Nil THEN walkPostOrder(Right(n)) ELSE <<>>)
    \o <<Value(n)>>

\* ------------------------------------------------------------- Tree[T]
New(cmp) == [compare |-> cmp, root |-> Nil, count |-> 0]

NewOrdered == New(Ordered)

\* var clone Tree[T]
ZeroTree == [compare |-> NilFunc, root |-> Nil, count |-> 0]

\* Tree.Len (Len itself is the length of a sequence)
TreeLen(t) == t.count

Contains(t, value) ==
    IF t.root = Nil THEN FALSE ELSE contains(t.root, value, t.compare)

\* Tree.Add panics exactly when node.add calls a nil compare, which is the
\* first statement of node.add.
AddPanics(t, value) == t.root # Nil /\ t.compare = NilFunc

Add(t, value) ==
    IF t.root = Nil
    THEN [t EXCEPT !.root = Leaf(value), !.count = @ + 1]
    ELSE [t EXCEPT !.root = add(t.root, value, t.compare), !.count = @ + 1]

\* Tree.Remove: the tree after the call, and the result.
Remove(t, value) ==
    IF t.root = Nil
    THEN [tree |-> t, ok |-> FALSE]
    ELSE LET r == remove(t.root, value, t.compare)
         IN  [tree |-> [t EXCEPT !.root = r[1], !.count = @ - 1],
              ok |-> r[2]]

\* Tree.Clear without "n.count = 0".
ClearRootOnly(t) == [t EXCEPT !.root = Nil]

Clear(t) == [t EXCEPT !.root = Nil, !.count = 0]

WalkPreOrder(t) == IF t.root = Nil THEN <<>> ELSE walkPreOrder(t.root)

WalkInOrder(t) == IF t.root = Nil THEN <<>> ELSE walkInOrder(t.root)

WalkPostOrder(t) == IF t.root = Nil THEN <<>> ELSE walkPostOrder(t.root)

\* Tree.slice: make([]T, 0, n.count) panics when count is negative.
slice(t, walk) ==
    IF t.count < 0
    THEN [panicked |-> TRUE, values |-> <<>>]
    ELSE [panicked |-> FALSE, values |-> walk]

SlicePreOrder(t) == slice(t, WalkPreOrder(t))

SliceInOrder(t) == slice(t, WalkInOrder(t))

SlicePostOrder(t) == slice(t, WalkPostOrder(t))

\* Tree.Clone: clone.Add is called with every value of the pre-order walk;
\* a panic in one of the calls ends Clone.
RECURSIVE cloneAdd(_, _)
cloneAdd(c, vals) ==
    IF vals = <<>> THEN [panicked |-> FALSE, tree |-> c]
    ELSE IF AddPanics(c, Head(vals)) THEN [panicked |-> TRUE, tree |-> c]
    ELSE cloneAdd(Add(c, Head(vals)), Tail(vals))

Clone(t) == cloneAdd(ZeroTree, WalkPreOrder(t))

\* ----------------------------------------------------------- the caller
\* One tree built by NewOrdered and a caller that applies Add, Remove,
\* Clear and Clone to it.  The caller keeps what the fuzz test keeps: the
\* values it has added and not yet removed (ref), the Len() it read before
\* the last call (lenBefore) and the result of the last call (ret, clone,
\* and out for a call that returns an int or a slice).
VARIABLES tree, ref, lastOp, lastArg, ret, lenBefore, clone, phase, out

treeVars == <<tree, ref, lastOp, lastArg, ret, lenBefore, clone, phase, out>>

\* The caller of Chunk and ChunkFunc: its slice and size, the result of
\* Chunk, the chunks ChunkFunc has passed to the callback, and the calls
\* it has made.
VARIABLES chunkSlice, chunkSize, chunkRet, chunkCalls, chunkDone

chunkVars == <<chunkSlice, chunkSize, chunkRet, chunkCalls, chunkDone>>

\* The caller of a Queue: the queue, the values it has enqueued and the
\* values successful Dequeue calls have returned (both in call order), the
\* Len() it read before the last call, and the last call with its result.
VARIABLES queue, enqueued, dequeued, queueLenBefore, queueOp, queueRet

queueVars == <<queue, enqueued, dequeued, queueLenBefore, queueOp, queueRet>>

\* A KeyedMutex and the goroutines that use it: the SyncMap from keys to
\* mutexes (kmMap; a *sync.Mutex is a number, 0 is no entry), the state of
\* every mutex allocated so far (kmLocked, kmAllocs), each goroutine's
\* position in the call it is making with the key and the mutex of that
\* call (kmPc, kmKey, kmMu), the keys each goroutine has locked and not
\* yet unlocked (kmHolds), and whether the runtime has stopped the program
\* with a fatal error (kmFatal).
VARIABLES kmMap, kmLocked, kmAllocs, kmPc, kmKey, kmMu, kmHolds, kmFatal

kmVars == <<kmMap, kmLocked, kmAllocs, kmPc, kmKey, kmMu, kmHolds, kmFatal>>

\* A PubSub with one publisher, its subscribers and the goroutines that
\* PubWait starts.  The fields PubTimeoutAfter, DefaultBuffer and subs
\* (psTimeoutAfter, psDefaultBuffer, psSubs; a chan T is a number) and
\* whether the read lock of the mutex is held (psRLocked); of every channel
\* made so far (psMade) its capacity, its buffer, the events whose send
\* on it has completed and the events its subscriber has received (psCap,
\* psBuf, psGot, psRecv); the goroutines running sendWaitGroup
\* (psSenders) and the sends that timed out (psTimeouts); of the PubWait
\* call, its position, event, loop index and wait group counter (psPc,
\* psEv, psI, psWg) and the channels subscribed when it was called
\* (psAtCall).
VARIABLES psTimeoutAfter, psDefaultBuffer, psSubs, psRLocked, psMade,
          psCap, psBuf, psGot, psRecv, psSenders, psTimeouts,
          psPc, psEv, psI, psWg, psAtCall

psVars == <<psTimeoutAfter, psDefaultBuffer, psSubs, psRLocked, psMade,
            psCap, psBuf, psGot, psRecv, psSenders, psTimeouts,
            psPc, psEv, psI, psWg, psAtCall>>

\* Two trees in one memory, for what a Clone shares with its original.
\* The memory is the sequence of the nodes allocated so far (heap; a
\* *node[T] is a position in it and 0 is nil); orig is a tree built by
\* NewOrdered and copy the result of the last orig.Clone(), if there was
\* one (cloned); actedOn names the tree the last call was made on.
VARIABLES heap, orig, copy, cloned, actedOn

heapVars == <<heap, orig, copy, cloned, actedOn>>

\* The caller of a Bimap: its two indexes, whether they have been made
\* (a zero Bimap holds two nil maps), and the last call with what it read.
VARIABLES bmForward, bmReverse, bmMade, bmOp

bimapVars == <<bmForward, bmReverse, bmMade, bmOp>>

\* Two sets a and b wrapped with a sync.RWMutex each, and the goroutines
\* that call AddSet and RemoveSet on them: the values of every set, the
\* goroutines holding the read lock and the goroutine holding the write
\* lock of its mutex, and every goroutine's position and call.
VARIABLES ssElems, ssReaders, ssWriter, ssPc, ssCall

setVars == <<ssElems, ssReaders, ssWriter, ssPc, ssCall>>

vars ==
    <<treeVars, chunkVars, queueVars, kmVars, psVars, heapVars, bimapVars,
      setVars>>

\* What a specification leaves alone.
others == <<bimapVars, setVars>>
notTree == <<chunkVars, queueVars, kmVars, psVars, heapVars, others>>
notChunk == <<treeVars, queueVars, kmVars, psVars, heapVars, others>>
notQueue == <<treeVars, chunkVars, kmVars, psVars, heapVars, others>>
notKm == <<treeVars, chunkVars, queueVars, psVars, heapVars, others>>
notPs == <<treeVars, chunkVars, queueVars, kmVars, heapVars, others>>
notHeap == <<treeVars, chunkVars, queueVars, kmVars, psVars, others>>
notBimap ==
    <<treeVars, chunkVars, queueVars, kmVars, psVars, heapVars, setVars>>
notSet ==
    <<treeVars, chunkVars, queueVars, kmVars, psVars, heapVars, bimapVars>>

\* No call of Chunk or ChunkFunc is made.
ChunkIdle ==
    /\ chunkSlice = <<>>
    /\ chunkSize = 1
    /\ chunkRet = <<>>
    /\ chunkCalls = <<>>
    /\ chunkDone = {}

\* The zero value of the element type (typ.Zero[T]()).
Zero == 0

\* The zero Queue[T]: its list is empty.
ZeroQueue == [list |-> <<>>]

NoQueueRet == [value |-> Zero, ok |-> FALSE]

\* No Queue is in use.
QueueStart(op) ==
    /\ queue = ZeroQueue
    /\ enqueued = <<>>
    /\ dequeued = <<>>
    /\ queueLenBefore = 0
    /\ queueOp = op
    /\ queueRet = NoQueueRet

QueueIdle == QueueStart("off")

Keys == 1..MaxKeys

Goroutines == 1..MaxGoroutines

Mutexes == 1..MaxMutexes

NoMutex == 0

\* The zero KeyedMutex, used by goroutines in position pc.
KmStart(pc) ==
    /\ kmMap = [k \in Keys |-> NoMutex]
    /\ kmLocked = [m \in Mutexes |-> FALSE]
    /\ kmAllocs = 0
    /\ kmPc = [g \in Goroutines |-> pc]
    /\ kmKey = [g \in Goroutines |-> 1]
    /\ kmMu = [g \in Goroutines |-> NoMutex]
    /\ kmHolds = [g \in Goroutines |-> {}]
    /\ kmFatal = FALSE

KmIdle == KmStart("off")

Channels == 1..MaxSubs

Events == 1..MaxPubs

NoEvent == 0

\* The PubSub with the given settings, no subscription, and its publisher
\* in position pc.
PsStart(timeout, buffer, pc) ==
    /\ psTimeoutAfter = timeout
    /\ psDefaultBuffer = buffer
    /\ psSubs = <<>>
    /\ psRLocked = FALSE
    /\ psMade = 0
    /\ psCap = [c \in Channels |-> 0]
    /\ psBuf = [c \in Channels |-> <<>>]
    /\ psGot = [c \in Channels |-> <<>>]
    /\ psRecv = [c \in Channels |-> <<>>]
    /\ psSenders = {}
    /\ psTimeouts = {}
    /\ psPc = pc
    /\ psEv = NoEvent
    /\ psI = 0
    /\ psWg = 0
    /\ psAtCall = {}

PsIdle == PsStart(0, 0, "off")

\* PubTimeoutAfter: not positive (no timeout), or positive.
PubTimeouts == {0, 1}

NilPtr == 0

\* The two trees before any call, the caller being in position on.
HeapStart(on) ==
    /\ heap = <<>>
    /\ orig = [compare |-> Ordered, root |-> NilPtr, count |-> 0]
    /\ copy = [compare |-> NilFunc, root |-> NilPtr, count |-> 0]
    /\ cloned = FALSE
    /\ actedOn = on

HeapIdle == HeapStart("off")

\* A map with no entries.
EmptyMap == [x \in {} |-> 0]

NoCall == [name |-> "none"]

\* var bimap maps.Bimap[K, V], the caller being in position pos.
BimapStart(pos) ==
    /\ bmForward = EmptyMap
    /\ bmReverse = EmptyMap
    /\ bmMade = FALSE
    /\ bmOp = [name |-> pos]

BimapIdle == BimapStart("off")

SetNames == {"a", "b"}

NoGoroutine == 0

\* No goroutine calls a set.
SetIdle ==
    /\ ssElems = [s \in SetNames |-> {}]
    /\ ssReaders = [s \in SetNames |-> {}]
    /\ ssWriter = [s \in SetNames |-> NoGoroutine]
    /\ ssPc = [g \in Goroutines |-> "off"]
    /\ ssCall = [g \in Goroutines |-> NoCall]

OthersIdle == BimapIdle /\ SetIdle

NoOut == <<>>

NoRef == [v \in Values |-> 0]

NoClone == [panicked |-> FALSE, tree |-> ZeroTree]

RECURSIVE nodeCount(_)
nodeCount(n) ==
    IF n = Nil THEN 0 ELSE 1 + nodeCount(Left(n)) + nodeCount(Right(n))

Start(ph) ==
    /\ tree = NewOrdered
    /\ ref = NoRef
    /\ lastOp = "New"
    /\ lastArg = 0
    /\ ret = FALSE
    /\ lenBefore = 0
    /\ clone = NoClone
    /\ phase = ph
    /\ out = NoOut

TreeIdle == Start("off")

TreeOnly ==
    ChunkIdle /\ QueueIdle /\ KmIdle /\ PsIdle /\ HeapIdle /\ OthersIdle

Init == Start("free") /\ TreeOnly

DoAdd(v) ==
    /\ nodeCount(tree.root) < MaxNodes
    /\ tree' = Add(tree, v)
    /\ ref' = [ref EXCEPT ![v] = @ + 1]
    /\ lastOp' = "Add"
    /\ lastArg' = v
    /\ ret' = FALSE
    /\ lenBefore' = TreeLen(tree)
    /\ clone' = NoClone
    /\ out' = NoOut
    /\ UNCHANGED notTree

DoRemove(v) ==
    /\ tree.count > -MaxNeg
    /\ tree' = Remove(tree, v).tree
    /\ ret' = Remove(tree, v).ok
    /\ ref' = IF Remove(tree, v).ok THEN [ref EXCEPT ![v] = @ - 1] ELSE ref
    /\ lastOp' = "Remove"
    /\ lastArg' = v
    /\ lenBefore' = TreeLen(tree)
    /\ clone' = NoClone
    /\ out' = NoOut
    /\ UNCHANGED notTree

CallAdd(v) == phase = "free" /\ DoAdd(v) /\ UNCHANGED phase

CallRemove(v) == phase = "free" /\ DoRemove(v) /\ UNCHANGED phase

CallClear ==
    /\ phase = "free"
    /\ tree' = Clear(tree)
    /\ ref' = NoRef
    /\ lastOp' = "Clear"
    /\ lastArg' = 0
    /\ ret' = FALSE
    /\ lenBefore' = TreeLen(tree)
    /\ clone' = NoClone
    /\ out' = NoOut
    /\ UNCHANGED notTree
    /\ UNCHANGED phase

CallClone ==
    /\ phase = "free"
    /\ clone' = Clone(tree)
    /\ lastOp' = "Clone"
    /\ lastArg' = 0
    /\ ret' = FALSE
    /\ lenBefore' = TreeLen(tree)
    /\ out' = NoOut
    /\ UNCHANGED <<tree, ref, phase>>
    /\ UNCHANGED notTree

Next ==
    \/ \E v \in Values : CallAdd(v)
    \/ \E v \in Values : CallRemove(v)
    \/ CallClear
    \/ CallClone

Spec == Init /\ [][Next]_vars

\* The round trip of FuzzOrderedTree_AddRemove: a sequence of Add calls,
\* then one Remove call for every value added, in any order.
InitRoundTrip == Start("insert") /\ TreeOnly

RoundTripAdd(v) == phase = "insert" /\ DoAdd(v) /\ UNCHANGED phase

RoundTripTurn ==
    /\ phase = "insert"
    /\ phase' = "remove"
    /\ UNCHANGED <<tree, ref, lastOp, lastArg, ret, lenBefore, clone, out>>
    /\ UNCHANGED notTree

RoundTripRemove(v) ==
    /\ phase = "remove"
    /\ ref[v] > 0
    /\ DoRemove(v)
    /\ UNCHANGED phase

NextRoundTrip ==
    \/ \E v \in Values : RoundTripAdd(v)
    \/ RoundTripTurn
    \/ \E v \in Values : RoundTripRemove(v)

SpecRoundTrip == InitRoundTrip /\ [][NextRoundTrip]_vars

\* A caller that also makes the calls that only read the tree: no field of the Tree or of a node is
\* assigned in Len, Contains / contains / find, Walk* / walk* and Slice* /
\* slice.  The caller keeps the result in ret (Contains) or out.
CallLen ==
    /\ phase = "query"
    /\ out' = TreeLen(tree)
    /\ lastOp' = "Len"
    /\ lastArg' = 0
    /\ ret' = FALSE
    /\ lenBefore' = TreeLen(tree)
    /\ clone' = NoClone
    /\ UNCHANGED <<tree, ref, phase>>
    /\ UNCHANGED notTree

\* Contains answered by a trial Remove, which restructures the tree.
CallContainsByRemove(v) ==
    /\ phase = "query"
    /\ ret' = Remove(tree, v).ok
    /\ tree' = Remove(tree, v).tree
    /\ lastOp' = "Contains"
    /\ lastArg' = v
    /\ out' = NoOut
    /\ lenBefore' = TreeLen(tree)
    /\ clone' = NoClone
    /\ UNCHANGED <<ref, phase>>
    /\ UNCHANGED notTree

CallContains(v) ==
    /\ phase = "query"
    /\ ret' = Contains(tree, v)
    /\ lastOp' = "Contains"
    /\ lastArg' = v
    /\ out' = NoOut
    /\ lenBefore' = TreeLen(tree)
    /\ clone' = NoClone
    /\ UNCHANGED <<tree, ref, phase>>
    /\ UNCHANGED notTree

Orders == {"PreOrder", "InOrder", "PostOrder"}

Walk(t, order) ==
    CASE order = "PreOrder" -> WalkPreOrder(t)
      [] order = "InOrder" -> WalkInOrder(t)
      [] order = "PostOrder" -> WalkPostOrder(t)

Slice(t, order) ==
    CASE order = "PreOrder" -> SlicePreOrder(t)
      [] order = "InOrder" -> SliceInOrder(t)
      [] order = "PostOrder" -> SlicePostOrder(t)

\* Walk<order>(walker): out is the sequence of values passed to walker.
CallWalk(order) ==
    /\ phase = "query"
    /\ out' = Walk(tree, order)
    /\ lastOp' = "Walk" \o order
    /\ lastArg' = 0
    /\ ret' = FALSE
    /\ lenBefore' = TreeLen(tree)
    /\ clone' = NoClone
    /\ UNCHANGED <<tree, ref, phase>>
    /\ UNCHANGED notTree

\* Slice<order>(): out is the slice returned, or the panic of the call.
CallSlice(order) ==
    /\ phase = "query"
    /\ out' = Slice(tree, order)
    /\ lastOp' = "Slice" \o order
    /\ lastArg' = 0
    /\ ret' = FALSE
    /\ lenBefore' = TreeLen(tree)
    /\ clone' = NoClone
    /\ UNCHANGED <<tree, ref, phase>>
    /\ UNCHANGED notTree

InitQuery == Start("query") /\ TreeOnly

QueryAdd(v) ==
    /\ phase = "query"
    /\ nodeCount(tree.root) < MaxQueryNodes
    /\ DoAdd(v)
    /\ UNCHANGED phase

QueryRemove(v) == phase = "query" /\ DoRemove(v) /\ UNCHANGED phase

NextQuery ==
    \/ \E v \in Values : QueryAdd(v)
    \/ \E v \in Values : QueryRemove(v)
    \/ CallLen
    \/ \E v \in Values : CallContains(v)
    \/ \E order \in Orders : CallWalk(order)
    \/ \E order \in Orders : CallSlice(order)

SpecQuery == InitQuery /\ [][NextQuery]_vars

\* The rotation tests: a test holds a hand-built subtree (tree.root) and
\* calls one rotation helper on it; out keeps the subtree it passed and
\* tree.root becomes the subtree returned.  A helper is only called on a
\* subtree that has the child (and, for the double rotations, the
\* grandchild) it dereferences, as rebalance does.
RotVals == 1..MaxRotVal

\* &intNode{value: v, height: ..., left: l, right: r} with its height.
builtNode(v, l, r) == Node(v, l, r, calcHeight(Node(v, l, r, 0)))

\* The search trees whose values in order are s, heights filled in.
RECURSIVE built(_)
built(s) ==
    IF s = <<>> THEN {Nil}
    ELSE UNION {{builtNode(s[i], l, r) :
                    l \in built(SubSeq(s, 1, i - 1)),
                    r \in built(SubSeq(s, i + 1, Len(s)))} :
                i \in 1..Len(s)}

RotInputs ==
    UNION {built(s) :
           s \in {q \in UNION {[1..k -> RotVals] : k \in 1..MaxRotNodes} :
                  \A i \in 1..(Len(q) - 1) : Compare(q[i], q[i + 1]) <= 0}}

RotOps == {"rotateLeft", "rotateRight", "rotateLeftRight", "rotateRightLeft"}

\* The child, or grandchild, the helper promotes to the root.
promoted(n, op) ==
    CASE op = "rotateLeft" -> Right(n)
      [] op = "rotateRight" -> Left(n)
      [] op = "rotateLeftRight" -> IF Right(n) = Nil THEN Nil ELSE Left(Right(n))
      [] op = "rotateRightLeft" -> IF Left(n) = Nil THEN Nil ELSE Right(Left(n))

rotated(n, op) ==
    CASE op = "rotateLeft" -> rotateLeft(n)
      [] op = "rotateRight" -> rotateRight(n)
      [] op = "rotateLeftRight" -> rotateLeftRight(n)
      [] op = "rotateRightLeft" -> rotateRightLeft(n)

InitRotate ==
    /\ \E n \in RotInputs :
           tree = [compare |-> Ordered, root |-> n, count |-> nodeCount(n)]
    /\ ref = NoRef
    /\ lastOp = "New"
    /\ lastArg = 0
    /\ ret = FALSE
    /\ lenBefore = 0
    /\ clone = NoClone
    /\ phase = "rotate"
    /\ out = NoOut
    /\ TreeOnly

\* got := tree.<op>()
CallRotate(op) ==
    /\ phase = "rotate"
    /\ promoted(tree.root, op) # Nil
    /\ tree' = [tree EXCEPT !.root = rotated(tree.root, op)]
    /\ out' = tree.root
    /\ lastOp' = op
    /\ UNCHANGED <<ref, lastArg, ret, lenBefore, clone, phase>>
    /\ UNCHANGED notTree

NextRotate ==
    \/ CallRotate("rotateLeft")
    \/ CallRotate("rotateRight")
    \/ CallRotate("rotateLeftRight")
    \/ CallRotate("rotateRightLeft")

SpecRotate == InitRotate /\ [][NextRotate]_vars

\* Remove called on a valid tree: the tree holds 1..k for some k up to
\* MaxValidNodes, every node is balanced and caches its height.
ValidVals == 1..MaxValidNodes

RECURSIVE evenHeights(_)
evenHeights(n) ==
    \/ n = Nil
    \/ /\ leftHeight(n) - rightHeight(n) \in {-1, 0, 1}
       /\ evenHeights(Left(n))
       /\ evenHeights(Right(n))

ValidInputs ==
    UNION {{n \in built([i \in 1..k |-> i]) : evenHeights(n)} :
           k \in 1..MaxValidNodes}

InitValid ==
    /\ \E n \in ValidInputs :
           tree = [compare |-> Ordered, root |-> n, count |-> nodeCount(n)]
    /\ ref = NoRef
    /\ lastOp = "New"
    /\ lastArg = 0
    /\ ret = FALSE
    /\ lenBefore = 0
    /\ clone = NoClone
    /\ phase = "valid"
    /\ out = NoOut
    /\ TreeOnly

ValidRemove(v) ==
    /\ phase = "valid"
    /\ tree' = Remove(tree, v).tree
    /\ ret' = Remove(tree, v).ok
    /\ Remove(tree, v).ok
    /\ lastOp' = "Remove"
    /\ lastArg' = v
    /\ lenBefore' = TreeLen(tree)
    /\ out' = tree.root
    /\ UNCHANGED <<ref, clone, phase>>
    /\ UNCHANGED notTree

NextValid == \E v \in ValidVals : ValidRemove(v)

SpecValid == InitValid /\ [][NextValid]_vars

\* A tree made by New with a comparator under which distinct values
\* compare equal: the values are pairs, ordered by their first component.
PairVals == (1..MaxPairKey) \X (1..MaxPairTag)

InitPairs ==
    /\ tree = New(ByFirst)
    /\ ref = [v \in PairVals |-> 0]
    /\ lastOp = "New"
    /\ lastArg = 0
    /\ ret = FALSE
    /\ lenBefore = 0
    /\ clone = NoClone
    /\ phase = "pairs"
    /\ out = NoOut
    /\ TreeOnly

PairsAdd(v) == phase = "pairs" /\ DoAdd(v) /\ UNCHANGED phase

PairsRemove(v) == phase = "pairs" /\ DoRemove(v) /\ UNCHANGED phase

NextPairs ==
    \/ \E v \in PairVals : PairsAdd(v)
    \/ \E v \in PairVals : PairsRemove(v)

SpecPairs == InitPairs /\ [][NextPairs]_vars

\* A caller that builds a tree of distinct values with Add and Remove,
\* takes SlicePostOrder() and then removes the values of the slice one by
\* one in its order; out holds the values still to be removed.
DrainVals == 1..MaxDrainVal

InitDrain ==
    /\ tree = NewOrdered
    /\ ref = [v \in DrainVals |-> 0]
    /\ lastOp = "New"
    /\ lastArg = 0
    /\ ret = FALSE
    /\ lenBefore = 0
    /\ clone = NoClone
    /\ phase = "build"
    /\ out = NoOut
    /\ TreeOnly

DrainAdd(v) ==
    /\ phase = "build"
    /\ ref[v] = 0
    /\ DoAdd(v)
    /\ UNCHANGED phase

DrainBuildRemove(v) ==
    /\ phase = "build"
    /\ ref[v] > 0
    /\ DoRemove(v)
    /\ UNCHANGED phase

\* vals := tree.SlicePostOrder()
DrainSlice ==
    /\ phase = "build"
    /\ ~SlicePostOrder(tree).panicked
    /\ out' = SlicePostOrder(tree).values
    /\ phase' = "drain"
    /\ lastOp' = "SlicePostOrder"
    /\ lastArg' = 0
    /\ ret' = FALSE
    /\ lenBefore' = TreeLen(tree)
    /\ UNCHANGED <<tree, ref, clone>>
    /\ UNCHANGED notTree

\* for _, v := range vals { tree.Remove(v) }
DrainRemove ==
    /\ phase = "drain"
    /\ out # <<>>
    /\ tree' = Remove(tree, Head(out)).tree
    /\ ret' = Remove(tree, Head(out)).ok
    /\ ref' = [ref EXCEPT ![Head(out)] = 0]
    /\ out' = Tail(out)
    /\ lastOp' = "Remove"
    /\ lastArg' = Head(out)
    /\ lenBefore' = TreeLen(tree)
    /\ UNCHANGED <<clone, phase>>
    /\ UNCHANGED notTree

NextDrain ==
    \/ \E v \in DrainVals : DrainAdd(v)
    \/ \E v \in DrainVals : DrainBuildRemove(v)
    \/ DrainSlice
    \/ DrainRemove

SpecDrain == InitDrain /\ [][NextDrain]_vars

\* ------------------------------------------------ slices.Chunk[Func]
\* A slice sl is a sequence; sl[a:b] with 0-based a and b is
\* SubSeq(sl, a + 1, b), and a nil slice is the empty sequence.
SliceOf(sl, a, b) == SubSeq(sl, a + 1, b)

\* make([]S, lim): lim nil slices.
MakeChunks(lim) == [k \in 1..lim |-> <<>>]

\* for i, j := 0, 0; j < rounded; i, j = i+1, j+size {
\*     chunks[i] = slice[j : j+size] }
RECURSIVE chunkLoop(_, _, _, _, _, _)
chunkLoop(chunks, sl, size, rounded, i, j) ==
    IF j < rounded
    THEN chunkLoop([chunks EXCEPT ![i + 1] = SliceOf(sl, j, j + size)],
                   sl, size, rounded, i + 1, j + size)
    ELSE chunks

Chunk(sl, size) ==
    IF Len(sl) = 0 THEN <<>>
    ELSE LET div == Len(sl) \div size
             rounded == div * size
             lim == div + (Len(sl) - rounded)
             chunks == chunkLoop(MakeChunks(lim), sl, size, rounded, 0, 0)
         IN  IF div # lim
             THEN [chunks EXCEPT ![lim] = SliceOf(sl, rounded, Len(sl))]
             ELSE chunks

\* for i, j := 0, 0; j < rounded; i, j = i+1, j+size {
\*     callback(slice[j : j+size]) }
\* The value is the sequence of the chunks passed to callback.
RECURSIVE chunkFuncLoop(_, _, _, _, _)
chunkFuncLoop(calls, sl, size, rounded, j) ==
    IF j < rounded
    THEN chunkFuncLoop(Append(calls, SliceOf(sl, j, j + size)),
                       sl, size, rounded, j + size)
    ELSE calls

ChunkFunc(sl, size) ==
    IF Len(sl) = 0 THEN <<>>
    ELSE LET div == Len(sl) \div size
             rounded == div * size
             calls == chunkFuncLoop(<<>>, sl, size, rounded, 0)
         IN  IF rounded # Len(sl)
             THEN Append(calls, SliceOf(sl, rounded, Len(sl)))
             ELSE calls

\* The elements of the slices, and the slices the caller may pass.
ChunkElems == {1, 2}

ChunkSlices == UNION {[1..n -> ChunkElems] : n \in 0..MaxChunkLen}

InitChunk ==
    /\ TreeIdle
    /\ QueueIdle
    /\ KmIdle
    /\ PsIdle
    /\ HeapIdle /\ OthersIdle
    /\ chunkSlice \in ChunkSlices
    /\ chunkSize \in 1..MaxChunkSize
    /\ chunkRet = <<>>
    /\ chunkCalls = <<>>
    /\ chunkDone = {}

CallChunk ==
    /\ "Chunk" \notin chunkDone
    /\ chunkRet' = Chunk(chunkSlice, chunkSize)
    /\ chunkDone' = chunkDone \cup {"Chunk"}
    /\ UNCHANGED <<chunkSlice, chunkSize, chunkCalls>>
    /\ UNCHANGED notChunk

CallChunkFunc ==
    /\ "ChunkFunc" \notin chunkDone
    /\ chunkCalls' = ChunkFunc(chunkSlice, chunkSize)
    /\ chunkDone' = chunkDone \cup {"ChunkFunc"}
    /\ UNCHANGED <<chunkSlice, chunkSize, chunkRet>>
    /\ UNCHANGED notChunk

NextChunk == CallChunk \/ CallChunkFunc

SpecChunk == InitChunk /\ [][NextChunk]_vars

\* ------------------------------------------------------- lists.Queue
\* The List[T] of package lists: a doubly linked list, here the sequence
\* of its values from the front to the back.  An *Element[T] is the
\* position of the element in that sequence, and 0 is the nil element.
NilElem == 0

ListLen(l) == Len(l)

\* PushFront inserts value at the front of the list.
PushFront(l, value) == <<value>> \o l

\* Front and Back return the first and the last element, or nil.
Front(l) == IF Len(l) = 0 THEN NilElem ELSE 1

Back(l) == IF Len(l) = 0 THEN NilElem ELSE Len(l)

\* Remove takes the element out of the list and returns its value.
ListRemove(l, elem) ==
    [list |-> SubSeq(l, 1, elem - 1) \o SubSeq(l, elem + 1, Len(l)),
     value |-> l[elem]]

\* func (q *Queue[T]) Len() int
QueueLen(q) == ListLen(q.list)

\* func (q *Queue[T]) Enqueue(value T)
Enqueue(q, value) == [q EXCEPT !.list = PushFront(q.list, value)]

DequeueFront(q) ==
    LET elem == Front(q.list)
    IN  IF elem = NilElem
        THEN [queue |-> q, value |-> Zero, ok |-> FALSE]
        ELSE LET r == ListRemove(q.list, elem)
             IN  [queue |-> [q EXCEPT !.list = r.list],
                  value |-> r.value, ok |-> TRUE]

\* func (q *Queue[T]) Dequeue() (T, bool)
Dequeue(q) ==
    LET elem == Back(q.list)
    IN  IF elem = NilElem
        THEN [queue |-> q, value |-> Zero, ok |-> FALSE]
        ELSE LET r == ListRemove(q.list, elem)
             IN  [queue |-> [q EXCEPT !.list = r.list],
                  value |-> r.value, ok |-> TRUE]

\* The values the caller enqueues.
QueueValues == 1..MaxQueueVal

InitQueue ==
    TreeIdle /\ ChunkIdle /\ KmIdle /\ PsIdle /\ HeapIdle /\ OthersIdle
    /\ QueueStart("New")

CallEnqueue(v) ==
    /\ Len(enqueued) < MaxEnqueues
    /\ queueLenBefore' = QueueLen(queue)
    /\ queue' = Enqueue(queue, v)
    /\ enqueued' = Append(enqueued, v)
    /\ queueOp' = "Enqueue"
    /\ queueRet' = NoQueueRet
    /\ UNCHANGED dequeued
    /\ UNCHANGED notQueue

CallDequeue ==
    LET r == Dequeue(queue)
    IN  /\ queueLenBefore' = QueueLen(queue)
        /\ queue' = r.queue
        /\ dequeued' = IF r.ok THEN Append(dequeued, r.value) ELSE dequeued
        /\ queueOp' = "Dequeue"
        /\ queueRet' = [value |-> r.value, ok |-> r.ok]
        /\ UNCHANGED enqueued
        /\ UNCHANGED notQueue

NextQueue ==
    \/ \E v \in QueueValues : CallEnqueue(v)
    \/ CallDequeue

SpecQueue == InitQueue /\ [][NextQueue]_vars

\* -------------------------------------------------------- KeyedMutex
\* The SyncMap[T, *sync.Mutex] (a fork of sync.Map): LoadOrStore returns
\* the value stored for key if there is one, and stores and returns the
\* given value otherwise; Delete removes the entry of key.  Both are
\* atomic.
LoadOrStore(m, key, value) ==
    IF m[key] # NoMutex
    THEN [m |-> m, actual |-> m[key], loaded |-> TRUE]
    ELSE [m |-> [m EXCEPT ![key] = value], actual |-> value,
          loaded |-> FALSE]

Delete(m, key) == [m EXCEPT ![key] = NoMutex]

\* m, _ := km.m.LoadOrStore(key, &sync.Mutex{}): the first statement of
\* LockKey, TryLockKey and UnlockKey.  The new mutex is unlocked; it is
\* kept only when the key has no entry.
kmLoadOrStore(g, key, pc) ==
    LET r == LoadOrStore(kmMap, key, kmAllocs + 1)
    IN  /\ ~kmFatal
        /\ kmPc[g] = "idle"
        /\ r.loaded \/ kmAllocs < MaxMutexes
        /\ kmMap' = r.m
        /\ kmAllocs' = IF r.loaded THEN kmAllocs ELSE kmAllocs + 1
        /\ kmPc' = [kmPc EXCEPT ![g] = pc]
        /\ kmKey' = [kmKey EXCEPT ![g] = key]
        /\ kmMu' = [kmMu EXCEPT ![g] = r.actual]
        /\ UNCHANGED <<kmLocked, kmHolds, kmFatal>>
        /\ UNCHANGED notKm

kmReturn(g) ==
    /\ kmPc' = [kmPc EXCEPT ![g] = "idle"]
    /\ kmMu' = [kmMu EXCEPT ![g] = NoMutex]
    /\ UNCHANGED <<kmMap, kmAllocs, kmKey>>
    /\ UNCHANGED notKm

\* LockKey: a goroutine does not lock a key it holds.
LockKeyLoad(g, key) ==
    /\ key \notin kmHolds[g]
    /\ kmLoadOrStore(g, key, "Lock")

\* m.Lock() returns once the mutex is unlocked, and locks it.
LockKeyLock(g) ==
    /\ ~kmFatal
    /\ kmPc[g] = "Lock"
    /\ ~kmLocked[kmMu[g]]
    /\ kmLocked' = [kmLocked EXCEPT ![kmMu[g]] = TRUE]
    /\ kmHolds' = [kmHolds EXCEPT ![g] = @ \cup {kmKey[g]}]
    /\ UNCHANGED kmFatal
    /\ kmReturn(g)

TryLockKeyLoad(g, key) ==
    /\ key \notin kmHolds[g]
    /\ kmLoadOrStore(g, key, "TryLock")

\* m.TryLock() locks the mutex and returns true if it is unlocked, and
\* returns false otherwise.
TryLockKeyTry(g) ==
    /\ ~kmFatal
    /\ kmPc[g] = "TryLock"
    /\ IF kmLocked[kmMu[g]]
       THEN UNCHANGED <<kmLocked, kmHolds>>
       ELSE /\ kmLocked' = [kmLocked EXCEPT ![kmMu[g]] = TRUE]
            /\ kmHolds' = [kmHolds EXCEPT ![g] = @ \cup {kmKey[g]}]
    /\ UNCHANGED kmFatal
    /\ kmReturn(g)

\* UnlockKey: the matching call of a goroutine that has locked the key.
UnlockKeyLoad(g, key) ==
    /\ key \in kmHolds[g]
    /\ kmLoadOrStore(g, key, "Unlock")

\* m.Unlock() unlocks the mutex; on an unlocked mutex it is the fatal
\* error "sync: unlock of unlocked mutex".
UnlockKeyUnlock(g) ==
    /\ ~kmFatal
    /\ kmPc[g] = "Unlock"
    /\ kmFatal' = ~kmLocked[kmMu[g]]
    /\ kmLocked' = [kmLocked EXCEPT ![kmMu[g]] = FALSE]
    /\ kmHolds' = [kmHolds EXCEPT ![g] = @ \ {kmKey[g]}]
    /\ kmReturn(g)

ClearKey(g, key) ==
    /\ ~kmFatal
    /\ kmPc[g] = "idle"
    /\ kmMap' = Delete(kmMap, key)
    /\ UNCHANGED <<kmLocked, kmAllocs, kmPc, kmKey, kmMu, kmHolds, kmFatal>>
    /\ UNCHANGED notKm

InitKm ==
    TreeIdle /\ ChunkIdle /\ QueueIdle /\ PsIdle /\ HeapIdle /\ OthersIdle
    /\ KmStart("idle")

NextKm ==
    \/ \E g \in Goroutines, key \in Keys : LockKeyLoad(g, key)
    \/ \E g \in Goroutines : LockKeyLock(g)
    \/ \E g \in Goroutines, key \in Keys : TryLockKeyLoad(g, key)
    \/ \E g \in Goroutines : TryLockKeyTry(g)
    \/ \E g \in Goroutines, key \in Keys : UnlockKeyLoad(g, key)
    \/ \E g \in Goroutines : UnlockKeyUnlock(g)
    \/ \E g \in Goroutines, key \in Keys : ClearKey(g, key)

SpecKm == InitKm /\ [][NextKm]_vars

\* ------------------------------------------------------ chans.PubSub
\* The channels of o.subs.
subsOf(subs) == {subs[i] : i \in 1..Len(subs)}

\* func (o *PubSub[T]) SubBuf(size int) <-chan T
\* o.mutex.Lock() waits for the read lock of PubWait to be released.
SubBuf(size) ==
    /\ psPc # "off"
    /\ ~psRLocked
    /\ psMade < MaxSubs
    /\ psMade' = psMade + 1
    /\ psCap' = [psCap EXCEPT ![psMade + 1] = size]
    /\ psSubs' = Append(psSubs, psMade + 1)
    /\ UNCHANGED <<psTimeoutAfter, psDefaultBuffer, psRLocked, psBuf, psGot,
                   psRecv, psSenders, psTimeouts, psPc, psEv, psI, psWg,
                   psAtCall>>
    /\ UNCHANGED notPs

\* func (o *PubSub[T]) Sub() <-chan T
Sub == SubBuf(psDefaultBuffer)

\* PubWait: o.mutex.RLock(); wg.Add(len(o.subs)).  The publisher gives
\* every call an event it has not published before.
PubWaitAdd(ev) ==
    /\ psPc = "idle"
    /\ ev > psEv
    /\ psRLocked' = TRUE
    /\ psWg' = Len(psSubs)
    /\ psEv' = ev
    /\ psI' = 0
    /\ psAtCall' = subsOf(psSubs)
    /\ psPc' = "range"
    /\ UNCHANGED <<psTimeoutAfter, psDefaultBuffer, psSubs, psMade, psCap,
                   psBuf, psGot, psRecv, psSenders, psTimeouts>>
    /\ UNCHANGED notPs

\* PubWait: go o.sendWaitGroup(ev, sub, ...) for the next sub of o.subs.
PubWaitGo ==
    /\ psPc = "range"
    /\ psI < Len(psSubs)
    /\ psSenders' = psSenders \cup
            {[ch |-> psSubs[psI + 1], ev |-> psEv, pc |-> "send"]}
    /\ psI' = psI + 1
    /\ UNCHANGED <<psTimeoutAfter, psDefaultBuffer, psSubs, psRLocked,
                   psMade, psCap, psBuf, psGot, psRecv, psTimeouts, psPc,
                   psEv, psWg, psAtCall>>
    /\ UNCHANGED notPs

\* PubWait: o.mutex.RUnlock() after the loop.
PubWaitRUnlock ==
    /\ psPc = "range"
    /\ psI = Len(psSubs)
    /\ psRLocked' = FALSE
    /\ psPc' = "Wait"
    /\ UNCHANGED <<psTimeoutAfter, psDefaultBuffer, psSubs, psMade, psCap,
                   psBuf, psGot, psRecv, psSenders, psTimeouts, psEv, psI,
                   psWg, psAtCall>>
    /\ UNCHANGED notPs

PubWaitNoWait ==
    /\ psPc = "Wait"
    /\ psPc' = "idle"
    /\ UNCHANGED <<psTimeoutAfter, psDefaultBuffer, psSubs, psRLocked,
                   psMade, psCap, psBuf, psGot, psRecv, psSenders,
                   psTimeouts, psEv, psI, psWg, psAtCall>>
    /\ UNCHANGED notPs

\* PubWait: wg.Wait() returns when the counter is 0, and PubWait returns.
PubWaitWait ==
    /\ psPc = "Wait"
    /\ psWg = 0
    /\ psPc' = "idle"
    /\ UNCHANGED <<psTimeoutAfter, psDefaultBuffer, psSubs, psRLocked,
                   psMade, psCap, psBuf, psGot, psRecv, psSenders,
                   psTimeouts, psEv, psI, psWg, psAtCall>>
    /\ UNCHANGED notPs

\* A channel leaves o.subs only in Unsub and UnsubAll, which close it: the
\* closed channels are those made by Sub that are no longer in o.subs.
closed(c) == c \in 1..psMade /\ c \notin subsOf(psSubs)

\* ch <- value completes when the buffer has room, or, on an unbuffered
\* channel, when the subscriber takes the value.
chanSend(c, ev) ==
    /\ IF psCap[c] = 0
       THEN /\ psRecv' = [psRecv EXCEPT ![c] = Append(@, ev)]
            /\ UNCHANGED psBuf
       ELSE /\ Len(psBuf[c]) < psCap[c]
            /\ psBuf' = [psBuf EXCEPT ![c] = Append(@, ev)]
            /\ UNCHANGED psRecv
    /\ psGot' = [psGot EXCEPT ![c] = Append(@, ev)]

\* sendWaitGroup: o.send(ev, sub, timeout, onTimeout), where SendTimeout
\* sends the value.
SendTimeoutSent(sender) ==
    /\ sender.pc = "send"
    /\ ~closed(sender.ch)
    /\ chanSend(sender.ch, sender.ev)
    /\ psSenders' = (psSenders \ {sender}) \cup {[sender EXCEPT !.pc = "Done"]}
    /\ UNCHANGED <<psTimeoutAfter, psDefaultBuffer, psSubs, psRLocked,
                   psMade, psCap, psTimeouts, psPc, psEv, psI, psWg,
                   psAtCall>>
    /\ UNCHANGED notPs

\* sendWaitGroup: o.send(...), where SendTimeout with a positive timeout
\* returns false when the timer fires first, and send calls onTimeout.
SendTimeoutFired(sender) ==
    /\ sender.pc = "send"
    /\ ~(psTimeoutAfter <= 0)
    /\ psTimeouts' = psTimeouts \cup {<<sender.ch, sender.ev>>}
    /\ psSenders' = (psSenders \ {sender}) \cup {[sender EXCEPT !.pc = "Done"]}
    /\ UNCHANGED <<psTimeoutAfter, psDefaultBuffer, psSubs, psRLocked,
                   psMade, psCap, psBuf, psGot, psRecv, psPc, psEv, psI,
                   psWg, psAtCall>>
    /\ UNCHANGED notPs

\* sendWaitGroup: wg.Done(), and the goroutine ends.
sendWaitGroupDone(sender) ==
    /\ sender.pc = "Done"
    /\ psWg' = psWg - 1
    /\ psSenders' = psSenders \ {sender}
    /\ UNCHANGED <<psTimeoutAfter, psDefaultBuffer, psSubs, psRLocked,
                   psMade, psCap, psBuf, psGot, psRecv, psTimeouts, psPc,
                   psEv, psI, psAtCall>>
    /\ UNCHANGED notPs

\* A subscriber takes the next value from the buffer of its channel
\* (for msg := range ch).
Receive(c) ==
    /\ psPc # "off"
    /\ psBuf[c] # <<>>
    /\ psRecv' = [psRecv EXCEPT ![c] = Append(@, Head(psBuf[c]))]
    /\ psBuf' = [psBuf EXCEPT ![c] = Tail(@)]
    /\ UNCHANGED <<psTimeoutAfter, psDefaultBuffer, psSubs, psRLocked,
                   psMade, psCap, psGot, psSenders, psTimeouts, psPc, psEv,
                   psI, psWg, psAtCall>>
    /\ UNCHANGED notPs

InitPs ==
    /\ TreeIdle /\ ChunkIdle /\ QueueIdle /\ KmIdle /\ HeapIdle /\ OthersIdle
    /\ \E timeout \in PubTimeouts, buffer \in 0..MaxBuffer :
           PsStart(timeout, buffer, "idle")

NextPs ==
    \/ Sub
    \/ \E size \in 0..MaxBuffer : SubBuf(size)
    \/ \E ev \in Events : PubWaitAdd(ev)
    \/ PubWaitGo
    \/ PubWaitRUnlock
    \/ PubWaitWait
    \/ \E sender \in psSenders : SendTimeoutSent(sender)
    \/ \E sender \in psSenders : SendTimeoutFired(sender)
    \/ \E sender \in psSenders : sendWaitGroupDone(sender)
    \/ \E c \in Channels : Receive(c)

SpecPs == InitPs /\ [][NextPs]_vars

\* Publishers and subscribers with goroutines that unsubscribe.
\* func (o *PubSub[T]) Pub(ev T): under the read lock, one goroutine
\* running o.send is started for every sub of o.subs.
Pub(ev) ==
    /\ psPc = "idle"
    /\ ev > psEv
    /\ psEv' = ev
    /\ psAtCall' = subsOf(psSubs)
    /\ psSenders' = psSenders \cup
            {[ch |-> c, ev |-> ev, pc |-> "sendOnly"] : c \in subsOf(psSubs)}
    /\ UNCHANGED <<psTimeoutAfter, psDefaultBuffer, psSubs, psRLocked,
                   psMade, psCap, psBuf, psGot, psRecv, psTimeouts, psPc,
                   psI, psWg>>
    /\ UNCHANGED notPs

\* send of a goroutine started by Pub: SendTimeout sends the value and the
\* goroutine ends.
sendSent(sender) ==
    /\ sender.pc = "sendOnly"
    /\ ~closed(sender.ch)
    /\ chanSend(sender.ch, sender.ev)
    /\ psSenders' = psSenders \ {sender}
    /\ UNCHANGED <<psTimeoutAfter, psDefaultBuffer, psSubs, psRLocked,
                   psMade, psCap, psTimeouts, psPc, psEv, psI, psWg,
                   psAtCall>>
    /\ UNCHANGED notPs

\* send of a goroutine started by Pub: the timer fires first.
sendFired(sender) ==
    /\ sender.pc = "sendOnly"
    /\ ~(psTimeoutAfter <= 0)
    /\ psTimeouts' = psTimeouts \cup {<<sender.ch, sender.ev>>}
    /\ psSenders' = psSenders \ {sender}
    /\ UNCHANGED <<psTimeoutAfter, psDefaultBuffer, psSubs, psRLocked,
                   psMade, psCap, psBuf, psGot, psRecv, psPc, psEv, psI,
                   psWg, psAtCall>>
    /\ UNCHANGED notPs

\* ch <- value in SendTimeout on a closed channel, also when the send was
\* already waiting as the channel was closed: the goroutine panics.
SendOnClosed(sender) ==
    /\ sender.pc \in {"send", "sendOnly"}
    /\ closed(sender.ch)
    /\ psSenders' = (psSenders \ {sender}) \cup {[sender EXCEPT !.pc = "panic"]}
    /\ UNCHANGED <<psTimeoutAfter, psDefaultBuffer, psSubs, psRLocked,
                   psMade, psCap, psBuf, psGot, psRecv, psTimeouts, psPc,
                   psEv, psI, psWg, psAtCall>>
    /\ UNCHANGED notPs

\* o.subs = append(o.subs[:idx], o.subs[idx+1:]...)
subsWithout(subs, c) == SelectSeq(subs, LAMBDA x : x # c)

\* func (o *PubSub[T]) Unsub(sub <-chan T) error, for a sub found in
\* o.subs: o.mutex.Lock() waits for the read lock; close(o.subs[idx]).
Unsub(c) ==
    /\ psPc # "off"
    /\ ~psRLocked
    /\ c \in subsOf(psSubs)
    /\ psSubs' = subsWithout(psSubs, c)
    /\ UNCHANGED <<psTimeoutAfter, psDefaultBuffer, psRLocked, psMade, psCap,
                   psBuf, psGot, psRecv, psSenders, psTimeouts, psPc, psEv,
                   psI, psWg, psAtCall>>
    /\ UNCHANGED notPs

\* func (o *PubSub[T]) UnsubAll() error: every channel is closed.
UnsubAll ==
    /\ psPc # "off"
    /\ ~psRLocked
    /\ psSubs' = <<>>
    /\ UNCHANGED <<psTimeoutAfter, psDefaultBuffer, psRLocked, psMade, psCap,
                   psBuf, psGot, psRecv, psSenders, psTimeouts, psPc, psEv,
                   psI, psWg, psAtCall>>
    /\ UNCHANGED notPs

NextUnsub ==
    \/ Sub
    \/ \E size \in 0..MaxBuffer : SubBuf(size)
    \/ \E ev \in Events : Pub(ev)
    \/ \E ev \in Events : PubWaitAdd(ev)
    \/ PubWaitGo
    \/ PubWaitRUnlock
    \/ PubWaitWait
    \/ \E sender \in psSenders : SendTimeoutSent(sender)
    \/ \E sender \in psSenders : SendTimeoutFired(sender)
    \/ \E sender \in psSenders : sendWaitGroupDone(sender)
    \/ \E sender \in psSenders : sendSent(sender)
    \/ \E sender \in psSenders : sendFired(sender)
    \/ \E sender \in psSenders : SendOnClosed(sender)
    \/ \E c \in Channels : Unsub(c)
    \/ UnsubAll
    \/ \E c \in Channels : Receive(c)

SpecUnsub == InitPs /\ [][NextUnsub]_vars

\* -------------------------------------------------------- maps.Bimap
\* A Go map is a function on the set of its keys.
BmKeys == 1..MaxBmKey
BmVals == 1..MaxBmVal

\* value, ok := m[key]
lookup(m, key) ==
    IF key \in DOMAIN m THEN [value |-> m[key], ok |-> TRUE]
    ELSE [value |-> 0, ok |-> FALSE]

\* delete(m, key)
deleted(m, key) == [x \in DOMAIN m \ {key} |-> m[x]]

\* m[key] = value
stored(m, key, value) ==
    [x \in DOMAIN m \cup {key} |-> IF x = key THEN value ELSE m[x]]

GetForward(forward, key) == lookup(forward, key)

GetReverse(reverse, value) == lookup(reverse, value)

BimapLen(forward) == Cardinality(DOMAIN forward)

\* Add after its first if: the reverse index.
addReverse(reverse, key) ==
    IF GetForward(bmForward, key).ok
    THEN deleted(reverse, GetForward(bmForward, key).value)
    ELSE reverse

\* Add after its second if, which reads the reverse index the first if
\* has left: the forward index.
addForward(forward, key, value) ==
    IF GetReverse(addReverse(bmReverse, key), value).ok
    THEN deleted(forward, GetReverse(addReverse(bmReverse, key), value).value)
    ELSE forward

\* Add without "delete(b.forward, oldKey)".
BimapAddKeepsOldKey(key, value) ==
    /\ bmOp.name # "off"
    /\ bmReverse' = stored(addReverse(bmReverse, key), value, key)
    /\ bmForward' = stored(bmForward, key, value)
    /\ bmMade' = TRUE
    /\ bmOp' = [name |-> "Add", key |-> key, value |-> value,
                oldVal |-> GetForward(bmForward, key),
                oldKey |-> GetReverse(addReverse(bmReverse, key), value)]
    /\ UNCHANGED notBimap

\* func (b *Bimap[K, V]) Add(key K, value V)
BimapAdd(key, value) ==
    /\ bmOp.name # "off"
    /\ bmReverse' = stored(addReverse(bmReverse, key), value, key)
    /\ bmForward' = stored(addForward(bmForward, key, value), key, value)
    /\ bmMade' = TRUE
    /\ bmOp' = [name |-> "Add", key |-> key, value |-> value,
                oldVal |-> GetForward(bmForward, key),
                oldKey |-> GetReverse(addReverse(bmReverse, key), value)]
    /\ UNCHANGED notBimap

\* func (b *Bimap[K, V]) RemoveForward(key K)
BimapRemoveForward(key) ==
    /\ bmOp.name # "off"
    /\ IF lookup(bmForward, key).ok
       THEN /\ bmReverse' = deleted(bmReverse, lookup(bmForward, key).value)
            /\ bmForward' = deleted(bmForward, key)
       ELSE UNCHANGED <<bmForward, bmReverse>>
    /\ bmOp' = [name |-> "RemoveForward", key |-> key]
    /\ UNCHANGED bmMade
    /\ UNCHANGED notBimap

\* func (b *Bimap[K, V]) RemoveReverse(value V)
BimapRemoveReverse(value) ==
    /\ bmOp.name # "off"
    /\ IF lookup(bmReverse, value).ok
       THEN /\ bmReverse' = deleted(bmReverse, value)
            /\ bmForward' = deleted(bmForward, lookup(bmReverse, value).value)
       ELSE UNCHANGED <<bmForward, bmReverse>>
    /\ bmOp' = [name |-> "RemoveReverse", value |-> value]
    /\ UNCHANGED bmMade
    /\ UNCHANGED notBimap

\* func (b *Bimap[K, V]) Clear(): Clear deletes every key of a map, and
\* does nothing on a nil map.
BimapClear ==
    /\ bmOp.name # "off"
    /\ bmForward' = EmptyMap
    /\ bmReverse' = EmptyMap
    /\ bmOp' = [name |-> "Clear"]
    /\ UNCHANGED bmMade
    /\ UNCHANGED notBimap

InitBimap ==
    /\ TreeIdle /\ ChunkIdle /\ QueueIdle /\ KmIdle /\ PsIdle /\ HeapIdle
    /\ SetIdle
    /\ BimapStart("var")

NextBimap ==
    \/ \E key \in BmKeys, value \in BmVals : BimapAdd(key, value)
    \/ \E key \in BmKeys : BimapRemoveForward(key)
    \/ \E value \in BmVals : BimapRemoveReverse(value)
    \/ BimapClear

SpecBimap == InitBimap /\ [][NextBimap]_vars

\* --------------------------------------------------------- sync2.Set
\* The set type that guards a sets.Set with a sync.RWMutex.  RLock waits
\* while a goroutine holds the write lock; Lock waits while a goroutine
\* holds the write lock or any goroutine holds the read lock.
SetVals == 1..MaxSetVal

SetCalls == {"AddSet", "RemoveSet"}

\* s.mu.RLock() and s.mu.Lock() can return for goroutine g.
canRLock(s) == ssWriter[s] = NoGoroutine

canLock(s) == ssWriter[s] = NoGoroutine /\ ssReaders[s] = {}

\* A goroutine calls recv.AddSet(arg) or recv.RemoveSet(arg).
SetCall(g, name, recv, arg) ==
    /\ ssPc[g] = "idle"
    /\ ssCall' = [ssCall EXCEPT ![g] = [name |-> name, recv |-> recv,
                                        arg |-> arg]]
    /\ ssPc' = [ssPc EXCEPT ![g] = "rLock"]
    /\ UNCHANGED <<ssElems, ssReaders, ssWriter>>
    /\ UNCHANGED notSet

\* set.rLock()
SetRLock(g) ==
    /\ ssPc[g] = "rLock"
    /\ canRLock(ssCall[g].arg)
    /\ ssReaders' = [ssReaders EXCEPT ![ssCall[g].arg] = @ \cup {g}]
    /\ ssPc' = [ssPc EXCEPT ![g] = "lock"]
    /\ UNCHANGED <<ssElems, ssWriter, ssCall>>
    /\ UNCHANGED notSet

\* s.lock()
SetLock(g) ==
    /\ ssPc[g] = "lock"
    /\ canLock(ssCall[g].recv)
    /\ ssWriter' = [ssWriter EXCEPT ![ssCall[g].recv] = g]
    /\ ssPc' = [ssPc EXCEPT ![g] = "apply"]
    /\ UNCHANGED <<ssElems, ssReaders, ssCall>>
    /\ UNCHANGED notSet

\* numAdded := s.s.AddSet(set.underlying()), or
\* numRemoved := s.s.RemoveSet(set.underlying())
SetApply(g) ==
    /\ ssPc[g] = "apply"
    /\ ssElems' = [ssElems EXCEPT ![ssCall[g].recv] =
            IF ssCall[g].name = "AddSet"
            THEN @ \cup ssElems[ssCall[g].arg]
            ELSE @ \ ssElems[ssCall[g].arg]]
    /\ ssPc' = [ssPc EXCEPT ![g] = "unlock"]
    /\ UNCHANGED <<ssReaders, ssWriter, ssCall>>
    /\ UNCHANGED notSet

\* s.unlock()
SetUnlock(g) ==
    /\ ssPc[g] = "unlock"
    /\ ssWriter' = [ssWriter EXCEPT ![ssCall[g].recv] = NoGoroutine]
    /\ ssPc' = [ssPc EXCEPT ![g] = "rUnlock"]
    /\ UNCHANGED <<ssElems, ssReaders, ssCall>>
    /\ UNCHANGED notSet

\* set.rUnlock(), and the call returns.
SetRUnlock(g) ==
    /\ ssPc[g] = "rUnlock"
    /\ ssReaders' = [ssReaders EXCEPT ![ssCall[g].arg] = @ \ {g}]
    /\ ssPc' = [ssPc EXCEPT ![g] = "idle"]
    /\ ssCall' = [ssCall EXCEPT ![g] = NoCall]
    /\ UNCHANGED <<ssElems, ssWriter>>
    /\ UNCHANGED notSet

InitSet ==
    /\ TreeIdle /\ ChunkIdle /\ QueueIdle /\ KmIdle /\ PsIdle /\ HeapIdle
    /\ BimapIdle
    /\ ssElems \in [SetNames -> SUBSET SetVals]
    /\ ssReaders = [s \in SetNames |-> {}]
    /\ ssWriter = [s \in SetNames |-> NoGoroutine]
    /\ ssPc = [g \in Goroutines |-> "idle"]
    /\ ssCall = [g \in Goroutines |-> NoCall]

NextSet ==
    \/ \E g \in Goroutines, name \in SetCalls, recv \in SetNames,
          arg \in SetNames : SetCall(g, name, recv, arg)
    \/ \E g \in Goroutines : SetRLock(g)
    \/ \E g \in Goroutines : SetLock(g)
    \/ \E g \in Goroutines : SetApply(g)
    \/ \E g \in Goroutines : SetUnlock(g)
    \/ \E g \in Goroutines : SetRUnlock(g)

SpecSet == InitSet /\ [][NextSet]_vars

\* --------------------------------------------------- nodes in memory
\* The operations of node[T] on a memory h of node records, with every
\* assignment through a pointer an update of h at that position.  An
\* operation that returns a pointer gives the record [h, p].
newNode(value) ==
    [value |-> value, left |-> NilPtr, right |-> NilPtr, height |-> 0]

\* &node[T]{...}: the node is placed at a new position.
alloc(h, nd) == [h |-> Append(h, nd), p |-> Len(h) + 1]

\* n.left = p, n.right = p, and the two with the result r of a call.
storeLeft(h, n, p) == [h EXCEPT ![n].left = p]

storeRight(h, n, p) == [h EXCEPT ![n].right = p]

assignLeft(r, n) == [r.h EXCEPT ![n].left = r.p]

assignRight(r, n) == [r.h EXCEPT ![n].right = r.p]

\* The nodes reachable from the node at p.
RECURSIVE reachH(_, _)
reachH(h, p) ==
    IF p = NilPtr THEN {}
    ELSE {p} \cup reachH(h, h[p].left) \cup reachH(h, h[p].right)

\* The nodes reachable from the node at p, in pre-order.
RECURSIVE listH(_, _)
listH(h, p) ==
    IF p = NilPtr THEN <<>>
    ELSE <<p>> \o listH(h, h[p].left) \o listH(h, h[p].right)

\* The pointers of ps that are not in the set known.
RECURSIVE without(_, _)
without(ps, known) ==
    IF ps = <<>> THEN <<>>
    ELSE IF Head(ps) \in known THEN without(Tail(ps), known)
    ELSE <<Head(ps)>> \o without(Tail(ps), known)

\* The new position of the node at p: its place in the sequence live.
moved(live, p) ==
    IF p = NilPtr THEN NilPtr ELSE CHOOSE i \in 1..Len(live) : live[i] = p

\* The live nodes at the front of the memory, every pointer following
\* its node.
collectLive(h, t, c, live) ==
    [h |-> [i \in 1..Len(live) |->
               [h[live[i]] EXCEPT !.left = moved(live, @),
                                  !.right = moved(live, @)]],
     t |-> [t EXCEPT !.root = moved(live, @)],
     c |-> [c EXCEPT !.root = moved(live, @)]]

\* Garbage collection: the nodes that neither tree reaches are freed, and
\* the others are moved to the front of the memory (those of t first,
\* each tree in pre-order).
collect(h, t, c) ==
    collectLive(h, t, c,
        listH(h, t.root) \o without(listH(h, c.root), reachH(h, t.root)))

leftHeightH(h, n) ==
    IF h[n].left = NilPtr THEN 0 ELSE h[h[n].left].height

rightHeightH(h, n) ==
    IF h[n].right = NilPtr THEN 0 ELSE h[h[n].right].height

calcHeightH(h, n) ==
    IF h[n].left = NilPtr /\ h[n].right = NilPtr THEN 0
    ELSE IF h[n].left = NilPtr THEN 1 + rightHeightH(h, n)
    ELSE IF h[n].right = NilPtr THEN 1 + leftHeightH(h, n)
    ELSE 1 + Max(leftHeightH(h, n), rightHeightH(h, n))

\* n.height = n.calcHeight(), and the same under "if n != nil".
storeHeight(h, n) == [h EXCEPT ![n].height = calcHeightH(h, n)]

storeHeightIf(h, n) == IF n # NilPtr THEN storeHeight(h, n) ELSE h

balanceH(h, n) ==
    IF leftHeightH(h, n) - rightHeightH(h, n) > 1 THEN balanceLeftHeavy
    ELSE IF rightHeightH(h, n) - leftHeightH(h, n) > 1
         THEN balanceRightHeavy
    ELSE balanceBalanced

\* rotateLeft after "prevRoot := *n; newRoot := prevRoot.right":
\*   prevRoot.right = newRoot.left
\*   if prevRoot.right != nil { prevRoot.right.height = ... }
\*   prevRoot.height = ...; newRoot.left = &prevRoot; newRoot.height = ...
rotateLeftAt(h, prevRoot, newRoot) ==
    [h |-> storeHeight(
               storeLeft(
                   storeHeight(
                       storeHeightIf(
                           storeRight(h, prevRoot, h[newRoot].left),
                           h[newRoot].left),
                       prevRoot),
                   newRoot, prevRoot),
               newRoot),
     p |-> newRoot]

\* prevRoot := *n copies the node; &prevRoot is stored in the new root,
\* so the copy is a new node in memory and *n itself is not assigned.
rotateLeftH(h, n) == rotateLeftAt(Append(h, h[n]), Len(h) + 1, h[n].right)

rotateRightAt(h, prevRoot, newRoot) ==
    [h |-> storeHeight(
               storeRight(
                   storeHeight(
                       storeHeightIf(
                           storeLeft(h, prevRoot, h[newRoot].right),
                           h[newRoot].right),
                       prevRoot),
                   newRoot, prevRoot),
               newRoot),
     p |-> newRoot]

rotateRightH(h, n) == rotateRightAt(Append(h, h[n]), Len(h) + 1, h[n].left)

\* n.right = n.right.rotateRight(); return n.rotateLeft()
rotateLeftRightH(h, n) ==
    rotateLeftH(assignRight(rotateRightH(h, h[n].right), n), n)

\* n.left = n.left.rotateLeft(); return n.rotateRight()
rotateRightLeftH(h, n) ==
    rotateRightH(assignLeft(rotateLeftH(h, h[n].left), n), n)

rebalanceH(h, n) ==
    IF balanceH(h, n) = balanceRightHeavy
    THEN IF h[n].right # NilPtr
            /\ balanceH(h, h[n].right) = balanceLeftHeavy
         THEN rotateLeftRightH(h, n)
         ELSE rotateLeftH(h, n)
    ELSE IF balanceH(h, n) = balanceLeftHeavy
    THEN IF h[n].left # NilPtr
            /\ balanceH(h, h[n].left) = balanceRightHeavy
         THEN rotateRightLeftH(h, n)
         ELSE rotateRightH(h, n)
    ELSE [h |-> h, p |-> n]

RECURSIVE addH(_, _, _, _)
addH(h, n, value, cmp) ==
    IF compare(cmp, value, h[n].value) < 0
    THEN rebalanceH(
             assignLeft(IF h[n].left = NilPtr
                        THEN alloc(h, newNode(value))
                        ELSE addH(h, h[n].left, value, cmp), n), n)
    ELSE rebalanceH(
             assignRight(IF h[n].right = NilPtr
                         THEN alloc(h, newNode(value))
                         ELSE addH(h, h[n].right, value, cmp), n), n)

\* popLeftMost gives [h, child, leftMost]; r is the result of
\* n.left.popLeftMost().
poppedBelow(r, n) ==
    [h |-> storeHeight(storeLeft(r.h, n, r.child), n),
     child |-> n, leftMost |-> r.leftMost]

RECURSIVE popLeftMostH(_, _)
popLeftMostH(h, n) ==
    IF h[n].left = NilPtr
    THEN [h |-> h, child |-> h[n].right, leftMost |-> n]
    ELSE poppedBelow(popLeftMostH(h, h[n].left), n)

\* remove gives [h, p, ok].
removed(b) == [h |-> b.h, p |-> b.p, ok |-> TRUE]

\* The two-children case of remove with "leftMost.left = newRight".
removedHereTwice(r, left) ==
    removed(rebalanceH(
        storeHeight(
            storeRight(storeLeft(r.h, r.leftMost, r.child),
                       r.leftMost, r.child),
            r.leftMost),
        r.leftMost))

\* remove at a node with two children, r being the result of
\* n.right.popLeftMost() and left being n.left.
removedHere(r, left) ==
    removed(rebalanceH(
        storeHeight(
            storeRight(storeLeft(r.h, r.leftMost, left),
                       r.leftMost, r.child),
            r.leftMost),
        r.leftMost))

\* remove after n.left.remove(...) and after n.right.remove(...) gave r.
removedLeft(r, n) ==
    IF r.ok
    THEN removed(rebalanceH(storeHeight(assignLeft(r, n), n), n))
    ELSE [h |-> r.h, p |-> n, ok |-> FALSE]

removedRight(r, n) ==
    IF r.ok
    THEN removed(rebalanceH(storeHeight(assignRight(r, n), n), n))
    ELSE [h |-> r.h, p |-> n, ok |-> FALSE]

\* With n.left and n.right nil no call of compare is made, so a one-node
\* tree with a nil compare does not panic.
RECURSIVE removeH(_, _, _, _)
removeH(h, n, value, cmp) ==
    IF h[n].value = value
    THEN IF h[n].left = NilPtr /\ h[n].right = NilPtr
         THEN [h |-> h, p |-> NilPtr, ok |-> TRUE]
         ELSE IF h[n].left = NilPtr
         THEN [h |-> h, p |-> h[n].right, ok |-> TRUE]
         ELSE IF h[n].right = NilPtr
         THEN [h |-> h, p |-> h[n].left, ok |-> TRUE]
         ELSE removedHere(popLeftMostH(h, h[n].right), h[n].left)
    ELSE IF h[n].left # NilPtr /\ compare(cmp, value, h[n].value) < 0
    THEN removedLeft(removeH(h, h[n].left, value, cmp), n)
    ELSE IF h[n].right # NilPtr
    THEN removedRight(removeH(h, h[n].right, value, cmp), n)
    ELSE [h |-> h, p |-> n, ok |-> FALSE]

\* remove calls the nil compare, which is a panic, when it reaches a node
\* with another value and a left child, or a right child after a nil left.
RECURSIVE removePanicsH(_, _, _, _)
removePanicsH(h, n, value, cmp) ==
    /\ cmp = NilFunc
    /\ h[n].value # value
    /\ \/ h[n].left # NilPtr
       \/ h[n].right # NilPtr /\ removePanicsH(h, h[n].right, value, cmp)

RECURSIVE walkPreOrderH(_, _)
walkPreOrderH(h, n) ==
    <<h[n].value>>
        \o (IF h[n].left # NilPtr THEN walkPreOrderH(h, h[n].left) ELSE <<>>)
        \o (IF h[n].right # NilPtr THEN walkPreOrderH(h, h[n].right) ELSE <<>>)

RECURSIVE walkInOrderH(_, _)
walkInOrderH(h, n) ==
    (IF h[n].left # NilPtr THEN walkInOrderH(h, h[n].left) ELSE <<>>)
        \o <<h[n].value>>
        \o (IF h[n].right # NilPtr THEN walkInOrderH(h, h[n].right) ELSE <<>>)

\* --------------------------------------------------- trees in memory
\* The methods of Tree[T] on a memory h: each gives the memory and the
\* tree after the call, and whether the call panicked.
\* n.root = r.p; n.count++
added(r, t) ==
    [panicked |-> FALSE, h |-> r.h,
     tree |-> [t EXCEPT !.root = r.p, !.count = @ + 1]]

AddH(h, t, value) ==
    IF t.root = NilPtr THEN added(alloc(h, newNode(value)), t)
    ELSE IF t.compare = NilFunc
    THEN [panicked |-> TRUE, h |-> h, tree |-> t]
    ELSE added(addH(h, t.root, value, t.compare), t)

\* n.root = newRoot; n.count--
removedFrom(r, t) ==
    [panicked |-> FALSE, h |-> r.h,
     tree |-> [t EXCEPT !.root = r.p, !.count = @ - 1]]

RemoveH(h, t, value) ==
    IF t.root = NilPtr
    THEN [panicked |-> FALSE, h |-> h, tree |-> t]
    ELSE IF removePanicsH(h, t.root, value, t.compare)
    THEN [panicked |-> TRUE, h |-> h, tree |-> t]
    ELSE removedFrom(removeH(h, t.root, value, t.compare), t)

ClearH(h, t) ==
    [panicked |-> FALSE, h |-> h,
     tree |-> [t EXCEPT !.root = NilPtr, !.count = 0]]

\* n.WalkPreOrder(clone.Add) on var clone Tree[T]; r is the result of
\* the last clone.Add and vals are the values still to be walked.
RECURSIVE cloneAddH(_, _)
cloneAddH(r, vals) ==
    IF r.panicked \/ vals = <<>> THEN r
    ELSE cloneAddH(AddH(r.h, r.tree, Head(vals)), Tail(vals))

WalkPreOrderH(h, t) ==
    IF t.root = NilPtr THEN <<>> ELSE walkPreOrderH(h, t.root)

WalkInOrderH(h, t) ==
    IF t.root = NilPtr THEN <<>> ELSE walkInOrderH(h, t.root)

\* A copy of the Tree struct in place of the clone: the nodes are shared.
CloneHShallow(h, t) == [panicked |-> FALSE, h |-> h, tree |-> t]

CloneH(h, t) ==
    cloneAddH([panicked |-> FALSE, h |-> h,
               tree |-> [compare |-> NilFunc, root |-> NilPtr, count |-> 0]],
              WalkPreOrderH(h, t))

\* Two values: one that goes to the left of the other, and duplicates.
HeapValues == {1, 2}

TreeNames == {"orig", "copy"}

treeNamed(who) == IF who = "orig" THEN orig ELSE copy

\* The memory and the two trees after a call, gc being what the garbage
\* collection leaves.
heapAfter(gc) ==
    /\ orig' = gc.t
    /\ copy' = gc.c
    /\ heap' = gc.h

\* A call on orig, or on copy once there is a clone; r is its result.  A
\* call that panics leaves the tree as it was.  The calls stay within the
\* bounds on the memory and on a negative count.
heapCall(who, r) ==
    /\ actedOn # "off"
    /\ who = "copy" => cloned
    /\ Len(r.h) <= MaxAlloc
    /\ r.tree.count >= -MaxNeg
    /\ heapAfter(collect(r.h, IF who = "orig" THEN r.tree ELSE orig,
                              IF who = "copy" THEN r.tree ELSE copy))
    /\ actedOn' = who
    /\ UNCHANGED cloned
    /\ UNCHANGED notHeap

HeapAdd(who, v) == heapCall(who, AddH(heap, treeNamed(who), v))

HeapRemove(who, v) == heapCall(who, RemoveH(heap, treeNamed(who), v))

HeapClear(who) == heapCall(who, ClearH(heap, treeNamed(who)))

\* copy := orig.Clone() with the result r; a Clone that panics assigns
\* nothing.
heapCloned(r) ==
    /\ actedOn # "off"
    /\ Len(r.h) <= MaxAlloc
    /\ heapAfter(collect(r.h, orig, IF r.panicked THEN copy ELSE r.tree))
    /\ cloned' = (cloned \/ ~r.panicked)
    /\ actedOn' = "Clone"
    /\ UNCHANGED notHeap

HeapClone == heapCloned(CloneH(heap, orig))

InitHeap ==
    /\ TreeIdle /\ ChunkIdle /\ QueueIdle /\ KmIdle /\ PsIdle /\ OthersIdle
    /\ HeapStart("New")

NextHeap ==
    \/ \E who \in TreeNames, v \in HeapValues : HeapAdd(who, v)
    \/ \E who \in TreeNames, v \in HeapValues : HeapRemove(who, v)
    \/ \E who \in TreeNames : HeapClear(who)
    \/ HeapClone

SpecHeap == InitHeap /\ [][NextHeap]_vars

\* ------------------------------------------------- what the claims name
\* The height of a subtree computed from its shape: 0 for a leaf and for
\* an empty child, 1 + the larger child height otherwise.
RECURSIVE shapeHeight(_)
shapeHeight(n) ==
    IF n = Nil THEN 0
    ELSE IF Left(n) = Nil /\ Right(n) = Nil THEN 0
    ELSE 1 + Max(shapeHeight(Left(n)), shapeHeight(Right(n)))

Abs(i) == IF i < 0 THEN -i ELSE i

\* Every node of the subtree n has child heights that differ by at most 1.
RECURSIVE balanced(_)
balanced(n) ==
    \/ n = Nil
    \/ /\ Abs(shapeHeight(Left(n)) - shapeHeight(Right(n))) <= 1
       /\ balanced(Left(n))
       /\ balanced(Right(n))

\* s is in non-decreasing order under typ.Compare.
Sorted(s) == \A i \in 1..(Len(s) - 1) : Compare(s[i], s[i + 1]) <= 0

\* The ascending listing of the bag b: b[v] copies of every value v.
RECURSIVE listing(_, _)
listing(b, v) ==
    IF v > MaxVal THEN <<>>
    ELSE [i \in 1..b[v] |-> v] \o listing(b, v + 1)

Ascending(b) == listing(b, 1)

\* The values of the subtree n, as a set.
RECURSIVE valuesOf(_)
valuesOf(n) ==
    IF n = Nil THEN {}
    ELSE {Value(n)} \cup valuesOf(Left(n)) \cup valuesOf(Right(n))

\* Search-tree order with duplicates on the right only.
RECURSIVE strictOrder(_)
strictOrder(n) ==
    \/ n = Nil
    \/ /\ \A x \in valuesOf(Left(n)) : Compare(x, Value(n)) < 0
       /\ \A x \in valuesOf(Right(n)) : Compare(x, Value(n)) >= 0
       /\ strictOrder(Left(n))
       /\ strictOrder(Right(n))

\* Search-tree order with duplicates on either side.
RECURSIVE weakOrder(_)
weakOrder(n) ==
    \/ n = Nil
    \/ /\ \A x \in valuesOf(Left(n)) : Compare(x, Value(n)) <= 0
       /\ \A x \in valuesOf(Right(n)) : Compare(x, Value(n)) >= 0
       /\ weakOrder(Left(n))
       /\ weakOrder(Right(n))

\* The number of times ev occurs in the sequence evs.
occurrences(evs, ev) == Cardinality({i \in 1..Len(evs) : evs[i] = ev})

\* The last PubWait call has returned.
PubWaitReturned == psPc = "idle" /\ psEv # NoEvent

\* The nodes reachable from the node at p with their fields, as a node
\* of the tuple form.
RECURSIVE unfoldH(_, _)
unfoldH(h, p) ==
    IF p = NilPtr THEN Nil
    ELSE Node(h[p].value, unfoldH(h, h[p].left), unfoldH(h, h[p].right),
              h[p].height)

\* A step leaves the tree t as it is: its compare and count, and every
\* field of every node reachable from its root.
untouched(t, tAfter) ==
    /\ tAfter.compare = t.compare
    /\ tAfter.count = t.count
    /\ unfoldH(heap', tAfter.root) = unfoldH(heap, t.root)

\* The nodes on which node.add and node.remove call rebalance, each as it
\* is when the call is made.
RECURSIVE addRebalances(_, _, _)
addRebalances(n, value, cmp) ==
    IF compare(cmp, value, Value(n)) < 0
    THEN IF Left(n) = Nil
         THEN {SetLeft(n, Leaf(value))}
         ELSE addRebalances(Left(n), value, cmp)
                  \cup {SetLeft(n, add(Left(n), value, cmp))}
    ELSE IF Right(n) = Nil
         THEN {SetRight(n, Leaf(value))}
         ELSE addRebalances(Right(n), value, cmp)
                  \cup {SetRight(n, add(Right(n), value, cmp))}

\* The node remove passes to rebalance after the call r on a child.
withHeight(n) == SetHeight(n, calcHeight(n))

RECURSIVE removeRebalances(_, _, _)
removeRebalances(n, value, cmp) ==
    IF Value(n) = value
    THEN IF Left(n) = Nil \/ Right(n) = Nil THEN {}
         ELSE {withHeight(SetRight(SetLeft(popLeftMost(Right(n))[2], Left(n)),
                                   popLeftMost(Right(n))[1]))}
    ELSE IF Left(n) # Nil /\ compare(cmp, value, Value(n)) < 0
    THEN removeRebalances(Left(n), value, cmp)
             \cup (IF remove(Left(n), value, cmp)[2]
                   THEN {withHeight(SetLeft(n, remove(Left(n), value, cmp)[1]))}
                   ELSE {})
    ELSE IF Right(n) # Nil
    THEN removeRebalances(Right(n), value, cmp)
             \cup (IF remove(Right(n), value, cmp)[2]
                   THEN {withHeight(SetRight(n, remove(Right(n), value, cmp)[1]))}
                   ELSE {})
    ELSE {}

\* The rebalance calls that Add(value) or Remove(value) on t would make.
rebalanceCalls(t, value) ==
    IF t.root = Nil THEN {}
    ELSE addRebalances(t.root, value, t.compare)
             \cup removeRebalances(t.root, value, t.compare)

\* height(x.left) - height(x.right), an empty child counting as 0.
balanceOf(n) == leftHeight(n) - rightHeight(n)

\* The rotation a node is to get by its balance and that of its heavy
\* child.
rotationByBalance(n) ==
    IF balanceOf(n) < -1
    THEN IF balanceOf(Right(n)) > 0
         THEN rotateLeft(SetRight(n, rotateRight(Right(n))))
         ELSE rotateLeft(n)
    ELSE IF balanceOf(n) > 1
    THEN IF balanceOf(Left(n)) < 0
         THEN rotateRight(SetLeft(n, rotateLeft(Left(n))))
         ELSE rotateRight(n)
    ELSE n

\* ----------------------------------------------------------- the claims

\* C1: after any sequence of Add and Remove calls every node of the tree
\* has child heights, computed from the shape, that differ by at most 1.
C1_BalanceInvariant == balanced(tree.root)

\* C2: after any sequence of Add, Remove and Clear calls SliceInOrder()
\* returns the ascending listing of the values added and not yet removed
\* by a Remove that returned true.
C2_SliceInOrderIsReference ==
    SliceInOrder(tree) = [panicked |-> FALSE, values |-> Ascending(ref)]

\* C3: with the natural ordering, Contains(v) is true if and only if v has
\* been added more times than it has been removed successfully.
C3_ContainsIffPresent ==
    \A v \in Values : Contains(tree, v) <=> ref[v] > 0

\* A Remove has just deleted the last occurrence of its value, which
\* Contains no longer finds, and has left another value, which it finds.
C3_Witness ==
    /\ lastOp = "Remove"
    /\ ret
    /\ ref[lastArg] = 0
    /\ ~Contains(tree, lastArg)
    /\ \E w \in Values : ref[w] > 0 /\ Contains(tree, w)
    /\ nodeCount(tree.root) >= 3

\* C4: Len() is the number of nodes reachable from the root; it is 0 if
\* and only if the root is empty, and it is never negative.
C4_LenIsNodeCount ==
    /\ TreeLen(tree) = nodeCount(tree.root)
    /\ TreeLen(tree) = Len(WalkInOrder(tree))
    /\ TreeLen(tree) = 0 <=> tree.root = Nil
    /\ TreeLen(tree) >= 0

\* C5: Remove(v) on a tree that does not hold v returns false and leaves
\* the tree as it was: the same nodes and the same Len().
C5_RemoveAbsentIsNoOp ==
    [][(lastOp' = "Remove" /\ lastArg' \notin valuesOf(tree.root))
          => (ret' = FALSE /\ tree' = tree)]_vars

\* C6: when the values added are removed again in any order, every Remove
\* returns true and makes Len() one less, and after the last one Len() is
\* 0 and the root is empty.
C6_RoundTrip ==
    /\ (phase = "remove" /\ lastOp = "Remove")
          => (ret /\ TreeLen(tree) = lenBefore - 1)
    /\ (phase = "remove" /\ ref = NoRef)
          => (TreeLen(tree) = 0 /\ tree.root = Nil)

\* The last Remove of a round trip has just returned.
C6_Witness ==
    /\ phase = "remove"
    /\ lastOp = "Remove"
    /\ ret
    /\ lenBefore = 1
    /\ ref = NoRef

C9_HeightLogarithmic ==
    /\ nodeCount(tree.root) <= 5 => shapeHeight(tree.root) <= 2
    /\ nodeCount(tree.root) <= 9 => shapeHeight(tree.root) <= 3

\* C10: Clone() returns a tree with the comparator, the Len() and the
\* SliceInOrder() of the source.
C10_CloneSameTree ==
    lastOp = "Clone" =>
        /\ ~clone.panicked
        /\ clone.tree.compare = tree.compare
        /\ TreeLen(clone.tree) = TreeLen(tree)
        /\ SliceInOrder(clone.tree) = SliceInOrder(tree)

\* The values of the subtree n in the three depth-first orders, an empty
\* subtree having none.
RECURSIVE visitOrder(_, _)
visitOrder(n, order) ==
    IF n = Nil THEN <<>>
    ELSE CASE order = "PreOrder" ->
                <<Value(n)>> \o visitOrder(Left(n), order)
                             \o visitOrder(Right(n), order)
           [] order = "InOrder" ->
                visitOrder(Left(n), order) \o <<Value(n)>>
                                           \o visitOrder(Right(n), order)
           [] order = "PostOrder" ->
                visitOrder(Left(n), order) \o visitOrder(Right(n), order)
                                           \o <<Value(n)>>

\* Every node of the subtree n caches the height calcHeight gives it.
RECURSIVE heightsCached(_)
heightsCached(n) ==
    \/ n = Nil
    \/ /\ Height(n) = calcHeight(n)
       /\ heightsCached(Left(n))
       /\ heightsCached(Right(n))

QueryOps ==
    {"Len", "Contains"} \cup {"Walk" \o o : o \in Orders}
                        \cup {"Slice" \o o : o \in Orders}

\* C12: no call on a tree made by NewOrdered fails: Clone returns, and no
\* Slice* call made in a reachable state panics.
C12_NoFailure ==
    /\ ~clone.panicked
    /\ \A order \in Orders : ~Slice(tree, order).panicked

\* C13: every Walk* visits each node once in its order (node, left, right;
\* left, node, right; left, right, node) and every Slice* returns that
\* sequence, which has length Len().
C13_WalkAndSlice ==
    \A order \in Orders :
        /\ Walk(tree, order) = visitOrder(tree.root, order)
        /\ Slice(tree, order) =
              [panicked |-> FALSE, values |-> Walk(tree, order)]
        /\ Len(Walk(tree, order)) = TreeLen(tree)

\* C14: after Clear() Len() is 0, Contains is false for every value, every
\* Slice* is empty, and the tree is the tree NewOrdered returns, comparator
\* included, so that every later call behaves as on a new tree.
C14_ClearIsNew ==
    lastOp = "Clear" =>
        /\ TreeLen(tree) = 0
        /\ \A v \in Values : ~Contains(tree, v)
        /\ \A order \in Orders :
              Slice(tree, order) = [panicked |-> FALSE, values |-> <<>>]
        /\ tree = NewOrdered

\* Clear has just emptied a tree of two values or more.
C14_Witness ==
    /\ lastOp = "Clear"
    /\ lenBefore >= 2
    /\ ref = NoRef

C20_CachedHeights == heightsCached(tree.root)

\* The concatenation of the slices of a sequence of slices.
RECURSIVE concat(_)
concat(ss) == IF ss = <<>> THEN <<>> ELSE Head(ss) \o concat(Tail(ss))

\* ceil(n / size)
CeilDiv(n, size) == (n + size - 1) \div size

\* C18: for every slice and every size >= 1, Chunk returns the chunks
\* ChunkFunc passes to its callback: ceil(len / size) non-empty consecutive
\* sub-slices, all of length size except possibly the last, whose
\* concatenation is the slice.
C18_ChunkIsChunkFunc ==
    chunkDone = {"Chunk", "ChunkFunc"} =>
        /\ chunkRet = chunkCalls
        /\ Len(chunkRet) = CeilDiv(Len(chunkSlice), chunkSize)
        /\ \A k \in 1..Len(chunkRet) :
              /\ chunkRet[k] # <<>>
              /\ k < Len(chunkRet) => Len(chunkRet[k]) = chunkSize
              /\ Len(chunkRet[k]) <= chunkSize
        /\ concat(chunkRet) = chunkSlice

\* C16: successful Dequeue calls return the values in the order they were
\* enqueued, Dequeue returns (zero value, false) exactly when the queue is
\* empty, and Len() is the number of Enqueue calls minus the number of
\* successful Dequeue calls.
C16_QueueFifo ==
    /\ Len(dequeued) <= Len(enqueued)
    /\ dequeued = SubSeq(enqueued, 1, Len(dequeued))
    /\ QueueLen(queue) = Len(enqueued) - Len(dequeued)
    /\ queueOp = "Dequeue" =>
          /\ queueRet.ok = (queueLenBefore # 0)
          /\ ~queueRet.ok => queueRet.value = Zero
          /\ queueRet.ok => queueRet.value = dequeued[Len(dequeued)]

\* Two values were enqueued, a third after the first was dequeued, and
\* Dequeue has emptied the queue and failed on the empty queue.
C16_Witness ==
    /\ queueOp = "Dequeue"
    /\ ~queueRet.ok
    /\ Len(dequeued) = 3
    /\ dequeued[1] # dequeued[2]
    /\ enqueued = dequeued

\* C17: for every key, at most one goroutine at a time is between a
\* successful LockKey or TryLockKey of that key and its matching
\* UnlockKey.
C17_MutualExclusion ==
    \A key \in Keys :
        Cardinality({g \in Goroutines : key \in kmHolds[g]}) <= 1

\* C19: with no publish timeout, when PubWait(ev) has returned every
\* channel that was subscribed when it was called has received ev, and no
\* channel ever receives an event more than once.
C19_PubWaitDelivers ==
    psTimeoutAfter <= 0 =>
        /\ \A c \in Channels : \A ev \in Events :
               occurrences(psGot[c], ev) <= 1
        /\ PubWaitReturned =>
               \A c \in psAtCall : occurrences(psGot[c], psEv) = 1

\* PubWait has returned from a call made without a timeout while a
\* buffered and an unbuffered channel were subscribed.
C19_Witness ==
    /\ psTimeoutAfter <= 0
    /\ PubWaitReturned
    /\ Cardinality(psAtCall) = 2
    /\ \E c, d \in psAtCall : psCap[c] = 0 /\ psCap[d] > 0

\* C11: after copy := orig.Clone() the two trees share no node, no call
\* of Add, Remove or Clear on copy changes orig (its fields, hence Len(),
\* and its nodes, hence SliceInOrder() and the node structure), and no
\* such call on orig changes copy.
C11_NoSharedNode ==
    cloned => reachH(heap, orig.root) \cap reachH(heap, copy.root) = {}

C11_CloneIndependent ==
    /\ []C11_NoSharedNode
    /\ [][/\ actedOn' = "copy" => untouched(orig, orig')
          /\ cloned /\ actedOn' = "orig" => untouched(copy, copy')]_vars

\* A call was made on the clone, which has a node, after its original
\* had grown to three nodes.
C11_Witness ==
    /\ cloned
    /\ actedOn = "copy"
    /\ copy.root # NilPtr
    /\ Len(WalkInOrderH(heap, orig)) = 3

\* C21: every rebalance call of Add and Remove chooses by the balance of
\* the node and of its heavy child: a double rotation when the child
\* leans the other way (balance > 0 on the right, < 0 on the left), a
\* single rotation otherwise, and none when the balance is within 1.
C21_RotationChoice ==
    \A v \in Values : \A n \in rebalanceCalls(tree, v) :
        rebalance(n) = rotationByBalance(n)


\* The subtrees of the two rotation tests the claim quotes.
rotRightWant ==
    Node(2, Leaf(1), Node(4, Leaf(3), Nil, 1), 2)

rotRightLeftWant == Node(2, Leaf(1), Leaf(3), 1)

\* C22: a rotation helper called on a subtree with correct cached heights
\* that has the child it rotates returns a subtree with the same values in
\* order and as many nodes, rooted at the promoted node, with every cached
\* height correct; rotateRight of 4(2(1, 3)) is 2(1, 4(3)) with heights
\* 2/0/1/0 and rotateRightLeft of 3(1(-, 2)) is 2(1, 3) with heights 1/0/0.
C22_RotationKeepsSubtree ==
    /\ lastOp \in RotOps =>
          /\ heightsCached(out)
          /\ visitOrder(tree.root, "InOrder") = visitOrder(out, "InOrder")
          /\ nodeCount(tree.root) = nodeCount(out)
          /\ Value(tree.root) = Value(promoted(out, lastOp))
          /\ heightsCached(tree.root)
    /\ (lastOp = "rotateRight"
           /\ out = Node(4, Node(2, Leaf(1), Leaf(3), 1), Nil, 2))
          => tree.root = rotRightWant
    /\ (lastOp = "rotateRightLeft"
           /\ out = Node(3, Node(1, Nil, Leaf(2), 1), Nil, 2))
          => tree.root = rotRightLeftWant

C22_Witness ==
    /\ lastOp = "rotateRightLeft"
    /\ out = Node(3, Node(1, Nil, Leaf(2), 1), Nil, 2)
    /\ tree.root = rotRightLeftWant


\* C23: Remove called on a tree in which every node is balanced and caches
\* its correct height returns a tree in which the same holds for every
\* node.
C23_RemoveKeepsValid ==
    (lastOp = "Remove" /\ balanced(out) /\ heightsCached(out))
        => (balanced(tree.root) /\ heightsCached(tree.root))


\* C24: under a comparator that makes distinct values compare equal, every
\* value added and not yet removed is found by Contains and removed by
\* Remove.
C24_AddedIsFound ==
    phase = "pairs" =>
        \A v \in PairVals :
            ref[v] > 0 => (Contains(tree, v) /\ Remove(tree, v).ok)


\* The nodes met on the paths of at most d links from the node at p, one
\* entry for every path.
RECURSIVE pathsH(_, _, _)
pathsH(h, p, d) ==
    IF p = NilPtr \/ d = 0 THEN <<>>
    ELSE <<p>> \o pathsH(h, h[p].left, d - 1) \o pathsH(h, h[p].right, d - 1)

\* Every node reachable from p is reached by one path only; a cycle gives
\* paths longer than the number of nodes, which repeat a node.
ownedOnce(h, p) ==
    \A i, j \in 1..Len(pathsH(h, p, Len(h) + 1)) :
        pathsH(h, p, Len(h) + 1)[i] = pathsH(h, p, Len(h) + 1)[j] => i = j

\* C25: in every state reached by Add, Remove, Clear and Clone the nodes
\* reachable from the root of a tree form a finite tree: each is reached
\* from the root by exactly one path.
C25_NodesFormATree ==
    actedOn # "off" =>
        (ownedOnce(heap, orig.root) /\ ownedOnce(heap, copy.root))

\* A rotation has acted: only a rotation puts a duplicate on the left.
C25_Witness ==
    /\ actedOn = "orig"
    /\ orig.root # NilPtr
    /\ heap[orig.root].left # NilPtr
    /\ heap[heap[orig.root].left].value = heap[orig.root].value
    /\ heap[orig.root].right # NilPtr
    /\ ownedOnce(heap, orig.root)


\* for _, v := range vals { t.Add(v) }
RECURSIVE addAll(_, _)
addAll(t, vals) ==
    IF vals = <<>> THEN t ELSE addAll(Add(t, Head(vals)), Tail(vals))

\* The layout of the subtree n: its shape and the value at every position.
RECURSIVE layout(_)
layout(n) ==
    IF n = Nil THEN Nil ELSE <<Value(n), layout(Left(n)), layout(Right(n))>>

\* C26: adding the values of SlicePreOrder(), in that order, to an empty
\* tree with the same comparator gives a tree with the layout of the tree
\* they were taken from.
C26_SameLayout ==
    (phase = "free" /\ ~SlicePreOrder(tree).panicked) =>
        layout(addAll(New(tree.compare), SlicePreOrder(tree).values).root)
            = layout(tree.root)


\* The node at n has no children.
isLeaf(n) == n # Nil /\ Left(n) = Nil /\ Right(n) = Nil

\* C27: while the values of SlicePostOrder() are removed in their order
\* from a tree of distinct values, every Remove call deletes a leaf: the
\* node that holds the next value to remove has no children.
C27_PostOrderDeletesLeaves ==
    (phase = "drain" /\ out # <<>>) =>
        isLeaf(find(tree.root, Head(out), tree.compare))


\* C28: whatever the interleaving of Pub and PubWait with Unsub and
\* UnsubAll, no goroutine started by a publish call sends on a channel
\* that has been closed.
C28_NoSendOnClosed == \A sender \in psSenders : sender.pc # "panic"


\* C29: after every Add, RemoveForward, RemoveReverse and Clear the two
\* indexes of a Bimap are inverses of each other: GetForward(k) gives
\* (v, true) exactly when GetReverse(v) gives (k, true), and both indexes
\* hold Len() entries.
C29_IndexesAreInverse ==
    bmOp.name # "off" =>
        /\ \A k \in BmKeys, v \in BmVals :
               (GetForward(bmForward, k) = [value |-> v, ok |-> TRUE])
                   <=> (GetReverse(bmReverse, v) = [value |-> k, ok |-> TRUE])
        /\ Cardinality(DOMAIN bmReverse) = BimapLen(bmForward)

\* An Add whose key and value were both held, by two different pairs.
C29_Witness ==
    /\ bmOp.name = "Add"
    /\ bmOp.oldVal.ok
    /\ bmOp.oldKey.ok
    /\ bmOp.oldVal.value # bmOp.value
    /\ bmOp.oldKey.value # bmOp.key
    /\ GetForward(bmForward, bmOp.key) = [value |-> bmOp.value, ok |-> TRUE]


\* Goroutine g is inside a call and waits for a lock it cannot take.
waiting(g) ==
    \/ ssPc[g] = "rLock" /\ ~canRLock(ssCall[g].arg)
    \/ ssPc[g] = "lock" /\ ~canLock(ssCall[g].recv)

\* C30: the calls of AddSet and RemoveSet never deadlock: it never happens
\* that every goroutine inside a call waits for a lock, so that no call
\* can go on and return.
C30_NoDeadlock ==
    ~ /\ \E g \in Goroutines : ssPc[g] \notin {"off", "idle"}
      /\ \A g \in Goroutines : ssPc[g] \notin {"off", "idle"} => waiting(g)

====
